---- MODULE Spec2Model ----
(***************************************************************************)
(* Verification model of ragx-cli. The specifications share the module and *)
(* its variables; each starts the groups it does not use in their idle     *)
(* state and leaves them unchanged:                                        *)
(*   Spec            - one ChatSession driven by Send / SendStreaming      *)
(*   SpecTrunc       - TruncateHistory applied to bounded histories        *)
(*   SpecVec         - one VectorDB driven by Insert / SearchKNN calls     *)
(*   SpecEmbed       - embedAll and its workers over the shared index      *)
(*   SpecStream      - prompt.SendStream and drainStream                   *)
(*   SpecProviderFor - Providers.ProviderFor                               *)
(*   SpecRoute       - the providers a query and a chat turn go through    *)
(*   SpecCleanup     - executeCleanup                                      *)
(*   SpecApp         - startup, run and shutdown of one command            *)
(*   SpecChunk       - ChunkText                                           *)
(*   SpecPrompt      - prompt.BuildUserPrompt                              *)
(*   SpecDiscover    - discover and ListFiles                              *)
(*   SpecTui         - the event loop of the terminal UI and its requests  *)
(*   SpecFilter      - the reasoning filters of drainStream and Update     *)
(***************************************************************************)
EXTENDS Integers, Sequences, FiniteSets, TLC

\* ------------------------------------------------------------------ bounds
\* number of Send / SendStreaming calls made on the session
MaxCalls == 2
\* number of content deltas read from one stream
MaxChunks == 2

\* longest history handed to TruncateHistory in SpecTrunc
MaxLen == 4
\* largest limit handed to TruncateHistory in SpecTrunc
MaxLimit == 4

\* number of sources handed to embedAll
MaxSources == 3
\* weight of the semaphore of embedAll (8 in the source, scaled down)
embedConcurrency == 2
\* chunks per embedding batch (64 in the source, scaled down)
embedBatchSize == 2
\* number of failures injected into one embedAll (failed embedding requests
\* and failed Inserts; cancellations and busy connections come on top)
MaxFaults == 1

\* number of deltas the iterator of one SendStream yields
MaxDeltas == 5

\* number of providers in the registry
MaxProviders == 3

\* number of providers configured for one run of the command line
MaxServers == 2
\* number of callbacks registered in a list handed to executeCleanup
MaxCallbacks == 3
\* number of invocations of executeCleanup on one list
MaxInvocations == 2

\* number of bytes of a text handed to ChunkText
MaxText == 5
\* largest chunk size handed to ChunkText
MaxSize == 3

\* number of hits handed to BuildUserPrompt
MaxHits == 3

\* number of paths handed to discover
MaxPaths == 2

\* number of prompts submitted in the terminal UI
MaxPrompts == 2
\* number of deltas the stream of one such prompt yields
MaxTuiDeltas == 1

\* number of deltas of a stream handed to both reasoning filters
MaxFiltered == 3

\* number of Insert calls made on the index
MaxInserts == 2
\* largest batch handed to one Insert
MaxBatch == 2

\* ------------------------------------------------------------ input domains
Prompts == {"abcde"}
Deltas == {"x", "yzyzy"}
Replies == {"", "ok"}
SystemPrompts == {"", "s"}
Models == {"", "m"}
\* session default context lengths (0 = no truncation)
DefaultContexts == {0, 1}
\* per-request ContextLength values (0 = not set)
ContextLengths == {0, 1}
TokenCounters == {"approx", "countMsgs"}

\* ------------------------------------------------------------ chat messages
SystemMessage(text) == [role |-> "system", content |-> text]
UserMessage(text) == [role |-> "user", content |-> text]
AssistantMessage(text) == [role |-> "assistant", content |-> text]

RECURSIVE RuneCount(_)
\* total number of codepoints of the text of all messages
RuneCount(msgs) ==
    IF msgs = <<>> THEN 0
    ELSE Len(Head(msgs).content) + RuneCount(Tail(msgs))

\* ApproxTokenCounter.Count: (n + 3) / 4 over the runes of all messages
ApproxCount(msgs) == (RuneCount(msgs) + 3) \div 4

\* the test suite's counter: one token per message
CountMsgs(msgs) == Len(msgs)

\* a custom TokenCounter whose count of a run exceeds the sum of the counts of
\* its messages: the square of the number of messages
SquareMsgs(msgs) == Len(msgs) * Len(msgs)

\* TokenCounter.Count, dispatched on the counter in use
Count(tc, msgs) ==
    CASE tc = "approx" -> ApproxCount(msgs)
      [] tc = "countMsgs" -> CountMsgs(msgs)
      [] tc = "squareMsgs" -> SquareMsgs(msgs)

\* ------------------------------------------------------- history truncation
RECURSIVE HeadEnd(_)
\* length of the leading run of system messages
HeadEnd(msgs) ==
    IF msgs # <<>> /\ Head(msgs).role = "system"
    THEN 1 + HeadEnd(Tail(msgs))
    ELSE 0

RECURSIVE SumCounts(_, _)
\* tailTokens as first computed: the sum of the per-message counts
SumCounts(tc, msgs) ==
    IF msgs = <<>> THEN 0
    ELSE Count(tc, <<Head(msgs)>>) + SumCounts(tc, Tail(msgs))

RECURSIVE TruncLoopSingle(_, _, _, _, _)
\* TruncLoop without the pair rule: always drops one message
TruncLoopSingle(tc, tail, headTokens, tailTokens, limit) ==
    IF Len(tail) > 0 /\ headTokens + tailTokens > limit
    THEN TruncLoopSingle(tc, Tail(tail), headTokens,
                         tailTokens - Count(tc, <<tail[1]>>), limit)
    ELSE tail

RECURSIVE TruncLoopOverSubtract(_, _, _, _, _)
\* TruncLoop whose single-message branch subtracts the counts of two messages
TruncLoopOverSubtract(tc, tail, headTokens, tailTokens, limit) ==
    IF Len(tail) > 0 /\ headTokens + tailTokens > limit
    THEN IF Len(tail) >= 2 /\ tail[1].role = "user" /\ tail[2].role = "assistant"
         THEN TruncLoopOverSubtract(tc, SubSeq(tail, 3, Len(tail)), headTokens,
                        tailTokens - (Count(tc, <<tail[1]>>) + Count(tc, <<tail[2]>>)),
                        limit)
         ELSE TruncLoopOverSubtract(tc, Tail(tail), headTokens,
                        tailTokens - (Count(tc, <<tail[1]>>)
                            + IF Len(tail) >= 2 THEN Count(tc, <<tail[2]>>) ELSE 0),
                        limit)
    ELSE tail

RECURSIVE TruncLoop(_, _, _, _, _)
\* the drop loop of TruncateHistory; tailTokens is maintained incrementally
TruncLoop(tc, tail, headTokens, tailTokens, limit) ==
    IF Len(tail) > 0 /\ headTokens + tailTokens > limit
    THEN IF Len(tail) >= 2 /\ tail[1].role = "user" /\ tail[2].role = "assistant"
         THEN TruncLoop(tc, SubSeq(tail, 3, Len(tail)), headTokens,
                        tailTokens - (Count(tc, <<tail[1]>>) + Count(tc, <<tail[2]>>)),
                        limit)
         ELSE TruncLoop(tc, Tail(tail), headTokens,
                        tailTokens - Count(tc, <<tail[1]>>), limit)
    ELSE tail

TruncateHistory(tc, msgs, limit) ==
    IF Len(msgs) = 0 THEN <<>>
    ELSE IF limit = 0 THEN msgs
    ELSE IF Count(tc, msgs) < limit THEN msgs
    ELSE LET headEnd == HeadEnd(msgs)
             head == SubSeq(msgs, 1, headEnd)
             tail == SubSeq(msgs, headEnd + 1, Len(msgs))
         IN  head \o TruncLoop(tc, tail, Count(tc, head), SumCounts(tc, tail), limit)

\* ------------------------------------------------------------- chat session
VARIABLES
    systemPrompt,    \* ChatSession.systemPrompt
    history,         \* ChatSession.history
    defaultContext,  \* ChatSession.defaultContext
    contextUsed,     \* ChatSession.contextUsed
    tokenCounter,    \* ChatSession.tokenCounter
    pc,              \* "idle", or "streaming" while an iterator is being ranged over
    req,             \* the ChatCompletionRequest of the current / last call
    messages,        \* params.Messages: the outbound message list of that call
    buf,             \* buf of SendStreaming: the accumulated assistant text
    yielded,         \* the deltas handed to yield during the current / last stream
    pre,             \* history when the current / last call was entered
    outcome,         \* how the last call ended
    calls            \* number of calls made so far

chatVars == <<systemPrompt, history, defaultContext, contextUsed, tokenCounter,
              pc, req, messages, buf, yielded, pre, outcome, calls>>

\* state of the TruncateHistory harness (SpecTrunc)
VARIABLES
    tMsgs,           \* msgs argument
    tLimit,          \* limit argument
    tCounter,        \* tc argument
    tOut,            \* TruncateHistory(tc, msgs, limit)
    tOut2,           \* TruncateHistory(tc, tOut, limit)
    tpc              \* "in", "once" (tOut computed), "twice" (tOut2 computed)

truncVars == <<tMsgs, tLimit, tCounter, tOut, tOut2, tpc>>

\* state of the vector index (SpecVec)
VARIABLES
    dim,             \* VectorDB.dim
    tblChunks,       \* table chunks as the connection sees it: rowid -> row
    tblVec,          \* table vec_items as the connection sees it: rowid -> embedding
    inTx,            \* a transaction is open on the connection
    snapshot,        \* the tables at BEGIN, restored by ROLLBACK
    vpc,             \* position inside Insert: "idle", "chunks", "vectors", "commit"
    batch,           \* chunks argument of the running / last Insert
    idx,             \* index of the next chunk of batch to write
    items,           \* items of Insert: rowid -> Vector
    pending,         \* keys of items not yet visited by insertItems
    vPre,            \* the tables when the running / last Insert was entered
    vResult,         \* result of the last Insert: "none", "ok", "err"
    hits,            \* result of the last SearchKNN
    searched,        \* the last SearchKNN since the last Insert: status, q, k given, k used
    inserts,         \* number of Insert calls so far
    assigned,        \* the rowids returned by INSERT ... RETURNING rowid, in order
    run              \* the last QueryOptions.Run since the last Insert

vecVars == <<dim, tblChunks, tblVec, inTx, snapshot, vpc, batch, idx, items,
             pending, vPre, vResult, hits, searched, inserts, assigned, run>>

\* state of the embedding pipeline (SpecEmbed); the index is tblChunks / tblVec
VARIABLES
    chunkedFiles,    \* chunkedFiles of embedAll: per source, its number of chunks
    mainPc,          \* position of embedAll: "acquire", "go", "wait", "returned"
    fileIdx,         \* index of the source the loop of embedAll is at
    semCur,          \* units of sem currently held
    wpc,             \* per source, the position of its worker
    wi,              \* per source, i of embedData: start of the current batch
    werr,            \* per source, the error its worker returned
    gErr,            \* g.err of the errgroup: the first error reported
    ctxDone,         \* the context of the errgroup is cancelled
    ret,             \* what embedAll returned
    lateStart,       \* g.Go started a source after the context was cancelled
    faults           \* number of failures injected so far

embedVars == <<chunkedFiles, mainPc, fileIdx, semCur, wpc, wi, werr, gErr, ctxDone,
               ret, lateStart, faults>>

\* state of one SendStream producer and its consumer (SpecStream)
VARIABLES
    ppc,             \* position of the producer goroutine
    sending,         \* the Chunk the producer is blocked sending
    carried,         \* the Chunks received from ch so far, in order
    chClosed,        \* ch is closed
    cpc,             \* position of drainStream: "select", "returned"
    cRet,            \* what drainStream returned
    sCtxDone,        \* ctx of the request is cancelled
    sYielded,        \* the deltas the iterator yielded so far
    sEnd,            \* how the stream ended: "none", "open", "clean" or the
                     \* cause of the iterator's error
    reasoning,       \* drainStream's reasoning
    reasoningDone,   \* drainStream's reasoningDone
    printed          \* the arguments of printFunc so far, in order

\* the locals of drainStream and its output
drainLocals == <<reasoning, reasoningDone, printed>>

adapterVars == <<ppc, sending, carried, chClosed, cpc, cRet, sCtxDone, sYielded, sEnd,
                 drainLocals>>

\* state of the provider registry and of one retrieval-augmented request
\* (SpecProviderFor, SpecRoute)
VARIABLES
    providers,       \* llmOptions.providers: per provider, its AvailableModels
    selectedModel,   \* the selected chat model
    embeddingModel,  \* the configured embedding model
    rpath,           \* who runs the request: "query" (QueryOptions.Run) or
                     \* "tui" (model.startRAGCmd)
    rpc,             \* position in the request
    rProvider,       \* the provider the request looked up (0: none)
    embedVia,        \* the provider whose Client embedded the query (0: none)
    chatVia,         \* the provider whose Session the stream was opened on
    rErr,            \* the error the request ended with
    lookedUp         \* the last stand-alone ProviderFor call and its result

routeVars == <<providers, selectedModel, embeddingModel, rpath, rpc, rProvider,
               embedVia, chatVia, rErr, lookedUp>>

\* state of executeCleanup and of the list it is called on (SpecCleanup,
\* SpecApp)
VARIABLES
    cleanupFuncs,    \* DefaultRAGOptions.cleanupFuncs: per place, the callback
                     \* registered there and whether the place is nil by now
    kpc,             \* position of executeCleanup: "off", "call", "loop",
                     \* "returned"
    kI,              \* i of the loop of executeCleanup
    kErrs,           \* errs of executeCleanup
    kRan,            \* the places whose callback was called, in call order,
                     \* over all invocations
    kInv,            \* number of invocations of executeCleanup so far
    kRet             \* what the last invocation returned

cleanVars == <<cleanupFuncs, kpc, kI, kErrs, kRan, kInv, kRet>>

\* state of one run of the command line (SpecApp)
VARIABLES
    cmdName,         \* cmd.CalledAs(): "query", its alias "q", or "chat"
    bpc,             \* position of the process: "steps", "command", "post",
                     \* "cleanup", "exited"
    ran,             \* the startup steps run so far with their errors, in order
    served,          \* per configured provider, the models its server lists
    llmDim,          \* llmOptions.dim
    vectordb,        \* llmOptions.vectordb: state and dimension of the index
    logFile,         \* the log file: "none", "open", "closed"
    clients,         \* the provider clients: "none", "open", "closed"
    primary,         \* the error of the startup or of the command ("nil": none)
    reported,        \* the errors written to stderr, in order
    exitCode,        \* exit code of the process (-1 while it runs)
    inflight,        \* the request of the command: "none", "streaming", "ended"
    reqCtxDone,      \* the context of that request is cancelled
    streamOpen       \* the stream of that request is open

procVars == <<cmdName, bpc, ran, served, llmDim, vectordb, logFile, clients, primary,
              reported, exitCode, inflight, reqCtxDone, streamOpen>>

\* state of one call of ChunkText (SpecChunk)
VARIABLES
    ckText,          \* text: the bytes of the string
    ckSize,          \* size
    ckOverlap,       \* overlap
    ckR,             \* r: the runes of text
    ckI,             \* i
    ckOut,           \* out: the chunks appended so far, each a string
    ckErr,           \* the error returned
    ckPc             \* "off", "call", "loop", "done"

chunkVars == <<ckText, ckSize, ckOverlap, ckR, ckI, ckOut, ckErr, ckPc>>

\* state of one call of BuildUserPrompt (SpecPrompt)
VARIABLES
    upHits,          \* chunks: the hits, each with its content and raw meta
    upMetaFn,        \* metaFn: "nil" or "DecodeMeta"
    upTmpl,          \* the user template: "default" or "unclosed"
    upI,             \* number of hits turned into a chunkView
    upViews,         \* td.Chunks
    upOut,           \* the lines of the rendered prompt
    upErr,           \* the error returned
    upPc             \* "off", "views", "render", "done"

promptVars == <<upHits, upMetaFn, upTmpl, upI, upViews, upOut, upErr, upPc>>

\* state of one call of discoverAndEmbed up to its chunking (SpecDiscover)
VARIABLES
    dsFiles,         \* files: the paths given on the command line
    dsMatchREs,      \* matchREs: "none" or "onlyA" (a pattern matching *a)
    dsUnreadable,    \* the directories whose entries cannot be read
    dsCwdOk,         \* the working directory can be determined
    dsI,             \* number of paths handled by the loop of discover
    dsSeen,          \* seen
    dsErrs,          \* errs
    dsPc,            \* "off", "loop", "returned", "chunked", "failed"
    dsChunked        \* the paths chunkFiles was handed, in order

discVars == <<dsFiles, dsMatchREs, dsUnreadable, dsCwdOk, dsI, dsSeen, dsErrs, dsPc,
              dsChunked>>

\* state of the terminal UI and of the requests it started (SpecTui)
VARIABLES
    uHistory,        \* history of the chat session the requests share
    uCancel,         \* m.cancel: the request whose cancel function it is, 0 nil
    uLoading,        \* m.loading
    uReqs,           \* number of prompts submitted
    uCtxDone,        \* per request: its context is cancelled
    uRag,            \* per request, the command of startRAGCmd: "none",
                     \* "running", "done"
    uProd,           \* per request, the goroutine of SendStream: "none",
                     \* "open", "range", "sendDelta", "sendEOF", "sendErr", "done"
    uBuf,            \* per request: number of deltas its stream yielded
    uWait,           \* per request: a waitChunk command receives on its channel
    uMsgs,           \* the messages on their way to Update
    uRolled,         \* the rollbacks made: by which request, of whose prompt
    uEofCancels      \* the cancel functions invoked on an EOF chunk: the
                     \* request of the chunk and the request cancelled

tuiVars == <<uHistory, uCancel, uLoading, uReqs, uCtxDone, uRag, uProd, uBuf, uWait,
             uMsgs, uRolled, uEofCancels>>

\* one stream of deltas handled by drainStream and by Update (SpecFilter)
VARIABLES
    flDeltas,        \* the content deltas of the stream; EOF follows them
    flCliI,          \* number of chunks drainStream has handled
    flCli,           \* the locals and the output of drainStream
    flTuiI,          \* number of chunks Update has handled
    flTui            \* m.reasoning, m.reasoningDone, the two builders and the
                     \* answer written to the history

filterVars == <<flDeltas, flCliI, flCli, flTuiI, flTui>>

\* the groups of the input side and of the terminal UI
extVars == <<chunkVars, promptVars, discVars, tuiVars, filterVars>>

appVars == <<routeVars, cleanVars, procVars, extVars>>

vars == <<chatVars, truncVars, vecVars, embedVars, adapterVars, appVars>>

EmptyTables == [chunks |-> <<>>, vec |-> <<>>]

\* a nil error
NoErr == [kind |-> "nil", source |-> 0, lo |-> 0, hi |-> 0, cause |-> "nil"]

\* no Chunk
NoChunk == [Err |-> "none", Content |-> <<>>]

\* the rowids the bounded runs can assign
RowIds == 1..(MaxInserts * MaxBatch)

NoSearch == [status |-> "none", q |-> <<>>, arg |-> 0, k |-> 0]

NoRun == [status |-> "none", conf |-> 0, topK |-> 0, context |-> <<>>]

NoRequest == [Model |-> "", Prompt |-> "", ContextLength |-> 0]

Requests == [Model : Models, Prompt : Prompts, ContextLength : ContextLengths]

\* ChatSession.NewChat: the initial history
NewChat(sp) == IF sp # "" THEN <<SystemMessage(sp)>> ELSE <<>>

appendUserMessages(h, msg) == Append(h, UserMessage(msg))

RECURSIVE LastUserIndex(_, _)
\* the largest index <= i holding a user message, 0 when there is none
LastUserIndex(h, i) ==
    IF i = 0 THEN 0
    ELSE IF h[i].role = "user" THEN i
    ELSE LastUserIndex(h, i - 1)

\* removeLastUserMessage that leaves the history as it is
removeLastUserMessageKept(h) == h

\* removeLastUserMessage that resets the history
removeLastUserMessageCleared(h) == <<>>

\* ChatSession.removeLastUserMessage: history[:i] for the last user message i
removeLastUserMessage(h) ==
    LET i == LastUserIndex(h, Len(h))
    IN  IF i = 0 THEN h ELSE SubSeq(h, 1, i - 1)

\* the context limit Send / SendStreaming hand to TruncateHistory
ContextLimit(r, dc) == dc

RECURSIVE Concat(_)
Concat(ss) == IF ss = <<>> THEN "" ELSE Head(ss) \o Concat(Tail(ss))

ChatInit ==
    /\ systemPrompt \in SystemPrompts
    /\ history = NewChat(systemPrompt)
    /\ defaultContext \in DefaultContexts
    /\ contextUsed = 0
    /\ tokenCounter \in TokenCounters
    /\ pc = "idle"
    /\ req = NoRequest
    /\ messages = <<>>
    /\ buf = ""
    /\ yielded = <<>>
    /\ pre = <<>>
    /\ outcome = "none"
    /\ calls = 0

sessionConst == <<systemPrompt, defaultContext, tokenCounter>>

\* --- ChatSession.Send ------------------------------------------------------
\* entry of Send / SendStreaming with an empty model: ErrNoModelSelected
SendNoModel(r) ==
    /\ pc = "idle" /\ calls < MaxCalls
    /\ r.Model = ""
    /\ req' = r
    /\ pre' = history
    /\ outcome' = "send_nomodel"
    /\ calls' = calls + 1
    /\ UNCHANGED <<history, contextUsed, messages, buf, yielded, pc>>
    /\ UNCHANGED <<sessionConst, truncVars, vecVars, embedVars, adapterVars, appVars>>

\* Completions.New returned an error; only context.Canceled rolls the prompt back
SendFailed(r, canceled) ==
    /\ pc = "idle" /\ calls < MaxCalls
    /\ r.Model # ""
    /\ LET h1 == appendUserMessages(history, r.Prompt)
       IN  /\ messages' = TruncateHistory(tokenCounter, h1, ContextLimit(r, defaultContext))
           /\ history' = IF canceled THEN removeLastUserMessage(h1) ELSE h1
    /\ req' = r
    /\ pre' = history
    /\ outcome' = IF canceled THEN "send_canceled" ELSE "send_error"
    /\ calls' = calls + 1
    /\ UNCHANGED <<contextUsed, buf, yielded, pc>>
    /\ UNCHANGED <<sessionConst, truncVars, vecVars, embedVars, adapterVars, appVars>>

\* the completion carries no choice: ErrEmptyCompletionResponse
SendEmpty(r) ==
    /\ pc = "idle" /\ calls < MaxCalls
    /\ r.Model # ""
    /\ LET h1 == appendUserMessages(history, r.Prompt)
       IN  /\ messages' = TruncateHistory(tokenCounter, h1, ContextLimit(r, defaultContext))
           /\ history' = h1
    /\ req' = r
    /\ pre' = history
    /\ outcome' = "send_empty"
    /\ calls' = calls + 1
    /\ UNCHANGED <<contextUsed, buf, yielded, pc>>
    /\ UNCHANGED <<sessionConst, truncVars, vecVars, embedVars, adapterVars, appVars>>

\* the completion's first choice is appended and the token count recomputed
SendOK(r, reply) ==
    /\ pc = "idle" /\ calls < MaxCalls
    /\ r.Model # ""
    /\ LET h1 == appendUserMessages(history, r.Prompt)
           h2 == Append(h1, AssistantMessage(reply))
       IN  /\ messages' = TruncateHistory(tokenCounter, h1, ContextLimit(r, defaultContext))
           /\ history' = h2
           /\ contextUsed' = Count(tokenCounter, h2)
    /\ req' = r
    /\ pre' = history
    /\ outcome' = "send_ok"
    /\ calls' = calls + 1
    /\ UNCHANGED <<buf, yielded, pc>>
    /\ UNCHANGED <<sessionConst, truncVars, vecVars, embedVars, adapterVars, appVars>>

\* --- ChatSession.SendStreaming ---------------------------------------------
SendStreamingNoModel(r) ==
    /\ pc = "idle" /\ calls < MaxCalls
    /\ r.Model = ""
    /\ req' = r
    /\ pre' = history
    /\ outcome' = "stream_nomodel"
    /\ calls' = calls + 1
    /\ UNCHANGED <<history, contextUsed, messages, buf, yielded, pc>>
    /\ UNCHANGED <<sessionConst, truncVars, vecVars, embedVars, adapterVars, appVars>>

\* the call up to returning the iterator: prompt appended, request built
SendStreaming(r) ==
    /\ pc = "idle" /\ calls < MaxCalls
    /\ r.Model # ""
    /\ LET h1 == appendUserMessages(history, r.Prompt)
       IN  /\ messages' = TruncateHistory(tokenCounter, h1, ContextLimit(r, defaultContext))
           /\ history' = h1
    /\ req' = r
    /\ pre' = history
    /\ pc' = "streaming"
    /\ buf' = ""
    /\ yielded' = <<>>
    /\ outcome' = "streaming"
    /\ calls' = calls + 1
    /\ UNCHANGED contextUsed
    /\ UNCHANGED <<sessionConst, truncVars, vecVars, embedVars, adapterVars, appVars>>

\* StreamDelta that writes the delta in front of buf
StreamDeltaPrepend(d) ==
    /\ pc = "streaming" /\ Len(yielded) < MaxChunks
    /\ buf' = d \o buf
    /\ yielded' = Append(yielded, d)
    /\ UNCHANGED <<history, contextUsed, pc, req, messages, pre, outcome, calls>>
    /\ UNCHANGED <<sessionConst, truncVars, vecVars, embedVars, adapterVars, appVars>>

\* stream.Next() delivered a content delta; yield returned true
\* (chunks without choices or with an empty delta are skipped and change nothing)
StreamDelta(d) ==
    /\ pc = "streaming" /\ Len(yielded) < MaxChunks
    /\ buf' = buf \o d
    /\ yielded' = Append(yielded, d)
    /\ UNCHANGED <<history, contextUsed, pc, req, messages, pre, outcome, calls>>
    /\ UNCHANGED <<sessionConst, truncVars, vecVars, embedVars, adapterVars, appVars>>

\* stream.Next() delivered a content delta; yield returned false (consumer left)
StreamDeltaStop(d) ==
    /\ pc = "streaming" /\ Len(yielded) < MaxChunks
    /\ buf' = buf \o d
    /\ yielded' = Append(yielded, d)
    /\ pc' = "idle"
    /\ outcome' = "stream_stopped"
    /\ UNCHANGED <<history, contextUsed, req, messages, pre, calls>>
    /\ UNCHANGED <<sessionConst, truncVars, vecVars, embedVars, adapterVars, appVars>>

\* the accumulator reports a finished refusal: the error is yielded, return
StreamRefusal ==
    /\ pc = "streaming"
    /\ pc' = "idle"
    /\ outcome' = "stream_refused"
    /\ UNCHANGED <<history, contextUsed, req, messages, buf, yielded, pre, calls>>
    /\ UNCHANGED <<sessionConst, truncVars, vecVars, embedVars, adapterVars, appVars>>

\* StreamError that rolls the prompt back whatever the error is
StreamErrorAlwaysRollback(canceled) ==
    /\ pc = "streaming"
    /\ history' = removeLastUserMessage(history)
    /\ pc' = "idle"
    /\ outcome' = IF canceled THEN "stream_canceled" ELSE "stream_error"
    /\ UNCHANGED <<contextUsed, req, messages, buf, yielded, pre, calls>>
    /\ UNCHANGED <<sessionConst, truncVars, vecVars, embedVars, adapterVars, appVars>>

\* stream.Next() returned false and stream.Err() is set
StreamError(canceled) ==
    /\ pc = "streaming"
    /\ history' = IF canceled THEN removeLastUserMessage(history) ELSE history
    /\ pc' = "idle"
    /\ outcome' = IF canceled THEN "stream_canceled" ELSE "stream_error"
    /\ UNCHANGED <<contextUsed, req, messages, buf, yielded, pre, calls>>
    /\ UNCHANGED <<sessionConst, truncVars, vecVars, embedVars, adapterVars, appVars>>

\* stream.Next() returned false without error: the stream ended cleanly
StreamEnd ==
    /\ pc = "streaming"
    /\ IF buf # ""
       THEN LET h2 == Append(history, AssistantMessage(buf))
            IN  /\ history' = h2
                /\ contextUsed' = Count(tokenCounter, h2)
       ELSE UNCHANGED <<history, contextUsed>>
    /\ pc' = "idle"
    /\ outcome' = "stream_clean"
    /\ UNCHANGED <<req, messages, buf, yielded, pre, calls>>
    /\ UNCHANGED <<sessionConst, truncVars, vecVars, embedVars, adapterVars, appVars>>

ChatNext ==
    \/ \E r \in Requests : SendNoModel(r)
    \/ \E r \in Requests, c \in BOOLEAN : SendFailed(r, c)
    \/ \E r \in Requests : SendEmpty(r)
    \/ \E r \in Requests, reply \in Replies : SendOK(r, reply)
    \/ \E r \in Requests : SendStreamingNoModel(r)
    \/ \E r \in Requests : SendStreaming(r)
    \/ \E d \in Deltas : StreamDelta(d)
    \/ \E d \in Deltas : StreamDeltaStop(d)
    \/ StreamRefusal
    \/ \E c \in BOOLEAN : StreamError(c)
    \/ StreamEnd

\* ------------------------------------------------- specification: the session
TruncIdle ==
    /\ tMsgs = <<>> /\ tLimit = 0 /\ tCounter = "approx"
    /\ tOut = <<>> /\ tOut2 = <<>> /\ tpc = "off"

VecIdle ==
    /\ dim = 1 /\ tblChunks = <<>> /\ tblVec = <<>> /\ inTx = FALSE
    /\ snapshot = EmptyTables /\ vpc = "off" /\ batch = <<>> /\ idx = 0
    /\ items = <<>> /\ pending = {} /\ vPre = EmptyTables /\ vResult = "none"
    /\ hits = <<>> /\ searched = NoSearch /\ inserts = 0
    /\ assigned = <<>> /\ run = NoRun

ChatIdle ==
    /\ systemPrompt = "" /\ history = <<>> /\ defaultContext = 0
    /\ contextUsed = 0 /\ tokenCounter = "approx" /\ pc = "off"
    /\ req = NoRequest /\ messages = <<>> /\ buf = "" /\ yielded = <<>>
    /\ pre = <<>> /\ outcome = "none" /\ calls = 0

\* no embedAll is running
EmbedIdle ==
    /\ chunkedFiles = <<>> /\ mainPc = "off" /\ fileIdx = 0 /\ semCur = 0
    /\ wpc = <<>> /\ wi = <<>> /\ werr = <<>> /\ gErr = NoErr
    /\ ctxDone = FALSE /\ ret = NoErr /\ lateStart = FALSE /\ faults = 0

\* no SendStream is running
AdapterIdle ==
    /\ ppc = "off" /\ sending = NoChunk /\ carried = <<>> /\ chClosed = FALSE
    /\ cpc = "off" /\ cRet = "none" /\ sCtxDone = FALSE /\ sYielded = <<>>
    /\ sEnd = "none"
    /\ reasoning = FALSE /\ reasoningDone = FALSE /\ printed = <<>>

\* no lookup made
NoLookup == [model |-> "", idx |-> 0, err |-> "none"]

RouteIdle ==
    /\ providers = <<>> /\ selectedModel = "" /\ embeddingModel = ""
    /\ rpath = "off" /\ rpc = "off" /\ rProvider = 0 /\ embedVia = 0
    /\ chatVia = 0 /\ rErr = "none" /\ lookedUp = NoLookup

\* no index
NoVecdb == [state |-> "none", dim |-> 0]

CleanIdle ==
    /\ cleanupFuncs = <<>> /\ kpc = "off" /\ kI = 0 /\ kErrs = <<>>
    /\ kRan = <<>> /\ kInv = 0 /\ kRet = "none"

ProcIdle ==
    /\ cmdName = "" /\ bpc = "off" /\ ran = <<>> /\ served = <<>> /\ llmDim = 0
    /\ vectordb = NoVecdb /\ logFile = "none" /\ clients = "none"
    /\ primary = "nil"
    /\ reported = <<>> /\ exitCode = -1 /\ inflight = "none"
    /\ reqCtxDone = FALSE /\ streamOpen = FALSE

ChunkIdle ==
    /\ ckText = <<>> /\ ckSize = 0 /\ ckOverlap = 0 /\ ckR = <<>> /\ ckI = 0
    /\ ckOut = <<>> /\ ckErr = "nil" /\ ckPc = "off"

PromptIdle ==
    /\ upHits = <<>> /\ upMetaFn = "nil" /\ upTmpl = "default" /\ upI = 0
    /\ upViews = <<>> /\ upOut = <<>> /\ upErr = "nil" /\ upPc = "off"

DiscIdle ==
    /\ dsFiles = <<>> /\ dsMatchREs = "none" /\ dsUnreadable = {} /\ dsCwdOk = TRUE
    /\ dsI = 0 /\ dsSeen = <<>> /\ dsErrs = <<>> /\ dsPc = "off" /\ dsChunked = <<>>

TuiReqs == 1..MaxPrompts

TuiIdle ==
    /\ uHistory = <<>> /\ uCancel = 0 /\ uLoading = FALSE /\ uReqs = 0
    /\ uCtxDone = [r \in TuiReqs |-> FALSE]
    /\ uRag = [r \in TuiReqs |-> "none"]
    /\ uProd = [r \in TuiReqs |-> "none"]
    /\ uBuf = [r \in TuiReqs |-> 0]
    /\ uWait = [r \in TuiReqs |-> FALSE]
    /\ uMsgs = {} /\ uRolled = {} /\ uEofCancels = {}

DrainStart == [reasoning |-> FALSE, reasoningDone |-> FALSE, printed |-> <<>>]

UpdateStart ==
    [reasoning |-> FALSE, reasoningDone |-> FALSE, response |-> <<>>,
     reasoningText |-> <<>>, answer |-> <<>>]

FilterIdle ==
    /\ flDeltas = <<>> /\ flCliI = 0 /\ flCli = DrainStart /\ flTuiI = 0
    /\ flTui = UpdateStart

ExtIdle == ChunkIdle /\ PromptIdle /\ DiscIdle /\ TuiIdle /\ FilterIdle

AppIdle == RouteIdle /\ CleanIdle /\ ProcIdle /\ ExtIdle

Init == ChatInit /\ TruncIdle /\ VecIdle /\ EmbedIdle /\ AdapterIdle /\ AppIdle

Next == ChatNext

Spec == Init /\ [][Next]_vars

\* --------------------------------------- specification: TruncateHistory alone
Roles == {"system", "user", "assistant"}
TruncContents == {"", "abcde"}
TruncMsgs == [role : Roles, content : TruncContents]
\* the counters handed to TruncateHistory: the session's and a custom one
TruncCounters == TokenCounters \cup {"squareMsgs"}

SeqsUpTo(S, n) == UNION {[1..k -> S] : k \in 0..n}

TruncInit ==
    /\ tMsgs \in SeqsUpTo(TruncMsgs, MaxLen)
    /\ tLimit \in 0..MaxLimit
    /\ tCounter \in TruncCounters
    /\ tOut = <<>>
    /\ tOut2 = <<>>
    /\ tpc = "in"

Truncate ==
    /\ tpc = "in"
    /\ tOut' = TruncateHistory(tCounter, tMsgs, tLimit)
    /\ tpc' = "once"
    /\ UNCHANGED <<tMsgs, tLimit, tCounter, tOut2, chatVars, vecVars, embedVars, adapterVars, appVars>>

TruncateAgain ==
    /\ tpc = "once"
    /\ tOut2' = TruncateHistory(tCounter, tOut, tLimit)
    /\ tpc' = "twice"
    /\ UNCHANGED <<tMsgs, tLimit, tCounter, tOut, chatVars, vecVars, embedVars, adapterVars, appVars>>

InitTrunc == TruncInit /\ ChatIdle /\ VecIdle /\ EmbedIdle /\ AdapterIdle /\ AppIdle

NextTrunc == Truncate \/ TruncateAgain

SpecTrunc == InitTrunc /\ [][NextTrunc]_vars

\* ------------------------------------------- specification: the vector index
Dims == {1, 2}
Vectors == {<<0>>, <<1>>, <<1, 0>>}
VecChunks == [Content : {"c"}, Vec : Vectors, Meta : {"m"}]
\* the k SearchKNN uses when given k <= 0
DefaultK == 5
\* k arguments of SearchKNN
Ks == {0, 1, 2}

Max(S) == CHOOSE m \in S : \A x \in S : x <= m

\* rowid given by SQLite to a row inserted without one (INTEGER PRIMARY KEY)
NextRowid(tbl) == IF DOMAIN tbl = {} THEN 1 ELSE Max(DOMAIN tbl) + 1

\* a ROLLBACK that undoes the vector rows only
RollbackVecOnly(snap, cur) == [chunks |-> cur.chunks, vec |-> snap.vec]

\* a ROLLBACK that undoes nothing
RollbackKept(snap, cur) == cur

\* the tables after ROLLBACK: those saved at BEGIN
Rollback(snap, cur) == snap

VecInit ==
    /\ dim \in Dims
    /\ tblChunks = <<>>
    /\ tblVec = <<>>
    /\ inTx = FALSE
    /\ snapshot = EmptyTables
    /\ vpc = "idle"
    /\ batch = <<>>
    /\ idx = 0
    /\ items = <<>>
    /\ pending = {}
    /\ vPre = EmptyTables
    /\ vResult = "none"
    /\ hits = <<>>
    /\ searched = NoSearch
    /\ inserts = 0
    /\ assigned = <<>>
    /\ run = NoRun

\* Insert up to the first chunk: BEGIN, prepare, items := {}
InsertBegin(cs) ==
    /\ vpc = "idle" /\ inserts < MaxInserts
    /\ inTx' = TRUE
    /\ snapshot' = [chunks |-> tblChunks, vec |-> tblVec]
    /\ vPre' = [chunks |-> tblChunks, vec |-> tblVec]
    /\ batch' = cs
    /\ idx' = 1
    /\ items' = <<>>
    /\ pending' = {}
    /\ vpc' = "chunks"
    /\ vResult' = "running"
    /\ hits' = <<>>
    /\ searched' = NoSearch
    /\ inserts' = inserts + 1
    /\ run' = NoRun
    /\ UNCHANGED <<dim, tblChunks, tblVec, assigned,
                   chatVars, truncVars, embedVars, adapterVars, appVars>>

\* the return of Insert with retErr set: statement closed, ROLLBACK executed
InsertFail(err) ==
    /\ LET t == Rollback(snapshot, [chunks |-> tblChunks, vec |-> tblVec])
       IN  /\ tblChunks' = t.chunks
           /\ tblVec' = t.vec
    /\ inTx' = FALSE
    /\ vpc' = "idle"
    /\ vResult' = err
    /\ UNCHANGED <<dim, snapshot, batch, idx, items, pending, vPre, hits, searched,
                   inserts, assigned, run,
                   chatVars, truncVars, embedVars, adapterVars, appVars>>

\* one iteration of the chunk loop: the row is written, its rowid recorded
InsertChunk ==
    /\ vpc = "chunks" /\ idx <= Len(batch)
    /\ LET rowid == NextRowid(tblChunks)
       IN  /\ tblChunks' = tblChunks @@ (rowid :> [content |-> batch[idx].Content,
                                                    meta |-> batch[idx].Meta])
           /\ items' = items @@ (rowid :> batch[idx].Vec)
           /\ assigned' = Append(assigned, rowid)
    /\ idx' = idx + 1
    /\ UNCHANGED <<dim, tblVec, inTx, snapshot, vpc, batch, pending, vPre, vResult,
                   hits, searched, inserts, run,
                   chatVars, truncVars, embedVars, adapterVars, appVars>>

\* one iteration of the chunk loop: stmt.Err() is set
InsertChunkErr ==
    /\ vpc = "chunks" /\ idx <= Len(batch)
    /\ InsertFail("err_chunk")

\* the chunk loop is over: insertItems is entered and ranges over items
InsertItemsBegin ==
    /\ vpc = "chunks" /\ idx > Len(batch)
    /\ vpc' = "vectors"
    /\ pending' = DOMAIN items
    /\ UNCHANGED <<dim, tblChunks, tblVec, inTx, snapshot, batch, idx, items, vPre,
                   vResult, hits, searched, inserts, assigned, run,
                   chatVars, truncVars, embedVars, adapterVars, appVars>>

\* one iteration of insertItems (map order: any pending key): the row is written
InsertVec(r) ==
    /\ vpc = "vectors" /\ r \in pending
    /\ Len(items[r]) = dim
    /\ tblVec' = tblVec @@ (r :> items[r])
    /\ pending' = pending \ {r}
    /\ UNCHANGED <<dim, tblChunks, inTx, snapshot, vpc, batch, idx, items, vPre,
                   vResult, hits, searched, inserts, assigned, run,
                   chatVars, truncVars, embedVars, adapterVars, appVars>>

\* one iteration of insertItems: len(values) != v.dim, ErrDimMismatch
InsertVecDimMismatch(r) ==
    /\ vpc = "vectors" /\ r \in pending
    /\ Len(items[r]) # dim
    /\ InsertFail("err_dim")

\* one iteration of insertItems: stmt.Exec() failed
InsertVecErr(r) ==
    /\ vpc = "vectors" /\ r \in pending
    /\ Len(items[r]) = dim
    /\ InsertFail("err_vec")

\* insertItems returned nil and COMMIT succeeded
InsertCommit ==
    /\ vpc = "vectors" /\ pending = {}
    /\ inTx' = FALSE
    /\ vpc' = "idle"
    /\ vResult' = "ok"
    /\ UNCHANGED <<dim, tblChunks, tblVec, snapshot, batch, idx, items, pending, vPre,
                   hits, searched, inserts, assigned, run,
                   chatVars, truncVars, embedVars, adapterVars, appVars>>

\* insertItems returned nil and COMMIT failed
InsertCommitErr ==
    /\ vpc = "vectors" /\ pending = {}
    /\ InsertFail("err_commit")

\* squared L2 distance (vec0's default metric is L2; the order is the same)
RECURSIVE Dist2(_, _)
Dist2(a, b) ==
    IF a = <<>> THEN 0
    ELSE (Head(a) - Head(b)) * (Head(a) - Head(b)) + Dist2(Tail(a), Tail(b))

\* the rows searchKNNQuery ranges over: vec_items JOIN chunks USING (rowid)
Searchable(tc, tv) == DOMAIN tc \cap DOMAIN tv

\* the rows of a set nearest to q
Nearest(rows, tv, q) ==
    {r \in rows : \A x \in rows : Dist2(tv[r], q) <= Dist2(tv[x], q)}

RECURSIVE NearestFirst(_, _, _, _)
\* the orders in which the n nearest rows can come out ORDER BY distance
\* (the query fixes no order among rows of equal distance)
NearestFirst(rows, tv, q, n) ==
    IF n = 0 \/ rows = {} THEN {<<>>}
    ELSE UNION {{<<r>> \o rest : rest \in NearestFirst(rows \ {r}, tv, q, n - 1)} :
                   r \in Nearest(rows, tv, q)}

\* the possible results of searchKNNQuery for k nearest neighbours
KNN(tc, tv, q, k) == NearestFirst(Searchable(tc, tv), tv, q, k)

SearchResult(tc, tv, q, r) ==
    [ID |-> r, Distance |-> Dist2(tv[r], q), Content |-> tc[r].content, Meta |-> tc[r].meta]

\* SearchKNN with a query of the wrong length: ErrDimMismatch
\* (the index is searched once between two Inserts: a search changes no table)
SearchKNNDimMismatch(q, k) ==
    /\ vpc = "idle" /\ searched.status = "none"
    /\ Len(q) # dim
    /\ hits' = <<>>
    /\ searched' = [status |-> "err", q |-> q, arg |-> k, k |-> k]
    /\ UNCHANGED <<dim, tblChunks, tblVec, inTx, snapshot, vpc, batch, idx, items,
                   pending, vPre, vResult, inserts, assigned, run,
                   chatVars, truncVars, embedVars, adapterVars, appVars>>

SearchKNN(q, k) ==
    /\ vpc = "idle" /\ searched.status = "none"
    /\ Len(q) = dim
    /\ LET kk == IF k <= 0 THEN DefaultK ELSE k
       IN  /\ \E h \in KNN(tblChunks, tblVec, q, kk) :
                  hits' = [i \in 1..Len(h) |-> SearchResult(tblChunks, tblVec, q, h[i])]
           /\ searched' = [status |-> "ok", q |-> q, arg |-> k, k |-> kk]
    /\ UNCHANGED <<dim, tblChunks, tblVec, inTx, snapshot, vpc, batch, idx, items,
                   pending, vPre, vResult, inserts, assigned, run,
                   chatVars, truncVars, embedVars, adapterVars, appVars>>

\* --- QueryOptions.Run ------------------------------------------------------
\* top_k values of the configuration file (validate rejects negative ones)
ConfTopKs == {0, 1}
\* the top_k used when the file gives none
defaultTopK == 20

\* Config.setDefaults on Embedding.TopK: cmp.Or(c.Embedding.TopK, defaultTopK)
setDefaults(conf) == IF conf # 0 THEN conf ELSE defaultTopK

NoRelevantChunks == "(no relevant chunks)"

\* the lines DefaultUserPromptTmpl renders under CONTEXT: for the chunks given
ContextSection(chunks) ==
    IF Len(chunks) # 0
    THEN [i \in 1..Len(chunks) |-> "CHUNK " \o chunks[i].Content]
    ELSE <<NoRelevantChunks>>

\* Run after the embedding of the query: topK read from the loaded
\* configuration, SearchKNN(q, topK), BuildUserPrompt(query, hits)
QueryRun(conf, q) ==
    /\ vpc = "idle" /\ searched.status = "none"
    /\ Len(q) = dim
    /\ LET topK == setDefaults(conf)
           kk == IF topK <= 0 THEN DefaultK ELSE topK
       IN  /\ \E h \in KNN(tblChunks, tblVec, q, kk) :
                  LET out == [i \in 1..Len(h) |-> SearchResult(tblChunks, tblVec, q, h[i])]
                  IN  /\ hits' = out
                      /\ run' = [status |-> "ok", conf |-> conf, topK |-> topK,
                                 context |-> ContextSection(out)]
           /\ searched' = [status |-> "ok", q |-> q, arg |-> topK, k |-> kk]
    /\ UNCHANGED <<dim, tblChunks, tblVec, inTx, snapshot, vpc, batch, idx, items,
                   pending, vPre, vResult, inserts, assigned,
                   chatVars, truncVars, embedVars, adapterVars, appVars>>

InitVec == VecInit /\ ChatIdle /\ TruncIdle /\ EmbedIdle /\ AdapterIdle /\ AppIdle

NextVec ==
    \/ \E cs \in SeqsUpTo(VecChunks, MaxBatch) : InsertBegin(cs)
    \/ InsertChunk
    \/ InsertChunkErr
    \/ InsertItemsBegin
    \/ \E r \in RowIds : InsertVec(r)
    \/ \E r \in RowIds : InsertVecDimMismatch(r)
    \/ \E r \in RowIds : InsertVecErr(r)
    \/ InsertCommit
    \/ InsertCommitErr
    \/ \E q \in Vectors, k \in Ks : SearchKNNDimMismatch(q, k)
    \/ \E q \in Vectors, k \in Ks : SearchKNN(q, k)
    \/ \E c \in ConfTopKs, q \in Vectors : QueryRun(c, q)

SpecVec == InitVec /\ [][NextVec]_vars

\* --------------------------------- specification: the embedding pipeline
\* chunk counts of a source: none, or one full batch and a rest
ChunkCounts == {0, embedBatchSize + 1}

Sources == 1..MaxSources

\* the vec variables an embedding run leaves alone
vecOther == <<dim, vpc, batch, idx, items, pending, vPre, vResult, hits, searched,
              inserts, assigned, run>>

notEmbed == <<chatVars, truncVars, adapterVars, appVars, vecOther>>

\* cf.chunks[pos] of source src
ChunkAt(src, pos) == <<src, pos>>

\* end of the batch starting at i: min(i + embedBatchSize, n)
BatchEnd(i, n) == IF i + embedBatchSize < n THEN i + embedBatchSize ELSE n

\* "embed batch [i:end]: %w"
EmbedBatchError(src, i, end, cause) ==
    [kind |-> "embed batch", source |-> 0, lo |-> i, hi |-> end, cause |-> cause]

\* "vectordb insert %q [i:end]: %w"
InsertError(src, i, end, cause) ==
    [kind |-> "vectordb insert", source |-> src, lo |-> i, hi |-> end, cause |-> cause]

\* embedded whose Meta.Index is the position inside the batch
EmbeddedBatchOrdinals(src, i, end) ==
    [j \in 1..(end - i) |->
        [Content |-> ChunkAt(src, i + j - 1), Vec |-> <<0>>,
         Meta |-> [Source |-> src, Index |-> j - 1]]]

\* embedded: one vecdb.Chunk per returned vector, Meta{Source, Index: i + j}
Embedded(src, i, end) ==
    [j \in 1..(end - i) |->
        [Content |-> ChunkAt(src, i + j - 1), Vec |-> <<0>>,
         Meta |-> [Source |-> src, Index |-> i + j - 1]]]

RECURSIVE WriteRows(_, _)
\* the tables after the rows of cs are written, in order, each with the next rowid
WriteRows(t, cs) ==
    IF cs = <<>> THEN t
    ELSE LET rowid == NextRowid(t.chunks)
             c == Head(cs)
         IN  WriteRows([chunks |-> t.chunks @@ (rowid :> [content |-> c.Content,
                                                          meta |-> c.Meta]),
                        vec |-> t.vec @@ (rowid :> c.Vec)],
                       Tail(cs))

\* sem.Acquire finds no free unit
SemFullNever(cur) == FALSE

\* sem.Acquire finds no free unit: all embedConcurrency units are held
SemFull(cur) == cur >= embedConcurrency

EmbedInit ==
    /\ chunkedFiles \in [Sources -> ChunkCounts]
    /\ mainPc = "acquire"
    /\ fileIdx = 1
    /\ semCur = 0
    /\ wpc = [w \in Sources |-> "queued"]
    /\ wi = [w \in Sources |-> 0]
    /\ werr = [w \in Sources |-> NoErr]
    /\ gErr = NoErr
    /\ ctxDone = FALSE
    /\ ret = NoErr
    /\ lateStart = FALSE
    /\ faults = 0

\* sem.Acquire(ctx, 1) returns nil: a unit was free and ctx was not done
Acquire ==
    /\ mainPc = "acquire"
    /\ ~ctxDone /\ ~SemFull(semCur)
    /\ semCur' = semCur + 1
    /\ mainPc' = "go"
    /\ UNCHANGED <<chunkedFiles, fileIdx, wpc, wi, werr, gErr, ctxDone, ret, lateStart, faults>>
    /\ UNCHANGED <<tblChunks, tblVec, inTx, snapshot, notEmbed>>

\* sem.Acquire(ctx, 1) returns ctx.Err(): the loop is left
AcquireCanceled ==
    /\ mainPc = "acquire"
    /\ ctxDone
    /\ mainPc' = "wait"
    /\ UNCHANGED <<chunkedFiles, fileIdx, semCur, wpc, wi, werr, gErr, ctxDone, ret,
                   lateStart, faults>>
    /\ UNCHANGED <<tblChunks, tblVec, inTx, snapshot, notEmbed>>

\* g.Go: the worker of the source is started; the loop goes on or ends
Go ==
    /\ mainPc = "go"
    /\ wpc' = [wpc EXCEPT ![fileIdx] = "embed"]
    /\ lateStart' = (lateStart \/ ctxDone)
    /\ fileIdx' = fileIdx + 1
    /\ mainPc' = IF fileIdx < MaxSources THEN "acquire" ELSE "wait"
    /\ UNCHANGED <<chunkedFiles, semCur, wi, werr, gErr, ctxDone, ret, faults>>
    /\ UNCHANGED <<tblChunks, tblVec, inTx, snapshot, notEmbed>>

\* g.Wait returns once every started worker is done
Wait ==
    /\ mainPc = "wait"
    /\ \A w \in Sources : wpc[w] \in {"queued", "done"}
    /\ ret' = gErr
    /\ ctxDone' = TRUE
    /\ mainPc' = "returned"
    /\ UNCHANGED <<chunkedFiles, fileIdx, semCur, wpc, wi, werr, gErr, lateStart, faults>>
    /\ UNCHANGED <<tblChunks, tblVec, inTx, snapshot, notEmbed>>
\* embedData with no chunk to embed (n = 0): the loop is not entered, nil is
\* returned and the deferred sem.Release(1) runs
WorkerReturnNil(w) ==
    /\ wpc[w] = "embed" /\ wi[w] >= chunkedFiles[w]
    /\ wpc' = [wpc EXCEPT ![w] = "released"]
    /\ semCur' = semCur - 1
    /\ UNCHANGED <<chunkedFiles, mainPc, fileIdx, wi, werr, gErr, ctxDone, ret,
                   lateStart, faults>>
    /\ UNCHANGED <<tblChunks, tblVec, inTx, snapshot, notEmbed>>

\* EmbedBatch returned an error: the request failed or answered with another
\* number of vectors ("failed"), or ctx was cancelled ("canceled")
WorkerEmbedErr(w, cause) ==
    /\ wpc[w] = "embed" /\ wi[w] < chunkedFiles[w]
    /\ IF cause = "canceled"
       THEN ctxDone /\ UNCHANGED faults
       ELSE faults < MaxFaults /\ faults' = faults + 1
    /\ werr' = [werr EXCEPT ![w] = EmbedBatchError(w, wi[w],
                                      BatchEnd(wi[w], chunkedFiles[w]), cause)]
    /\ wpc' = [wpc EXCEPT ![w] = "released"]
    /\ semCur' = semCur - 1
    /\ UNCHANGED <<chunkedFiles, mainPc, fileIdx, wi, gErr, ctxDone, ret,
                   lateStart>>
    /\ UNCHANGED <<tblChunks, tblVec, inTx, snapshot, notEmbed>>

\* EmbedBatch returned one vector per chunk of the batch, embedded is built
\* and Insert's BEGIN succeeded on the shared connection
WorkerBegin(w) ==
    /\ wpc[w] = "embed" /\ wi[w] < chunkedFiles[w]
    /\ ~ctxDone
    /\ ~inTx
    /\ inTx' = TRUE
    /\ snapshot' = [chunks |-> tblChunks, vec |-> tblVec]
    /\ wpc' = [wpc EXCEPT ![w] = "tx"]
    /\ UNCHANGED <<chunkedFiles, mainPc, fileIdx, semCur, wi, werr, gErr, ctxDone, ret,
                   lateStart, faults>>
    /\ UNCHANGED <<tblChunks, tblVec, notEmbed>>

\* EmbedBatch returned one vector per chunk of the batch, embedded is built
\* and Insert's BEGIN failed: the connection is inside another worker's
\* transaction; Insert returns before its ROLLBACK is deferred
WorkerBeginBusy(w) ==
    /\ wpc[w] = "embed" /\ wi[w] < chunkedFiles[w]
    /\ ~ctxDone
    /\ inTx
    /\ werr' = [werr EXCEPT ![w] = InsertError(w, wi[w],
                                      BatchEnd(wi[w], chunkedFiles[w]), "begin")]
    /\ wpc' = [wpc EXCEPT ![w] = "released"]
    /\ semCur' = semCur - 1
    /\ UNCHANGED <<chunkedFiles, mainPc, fileIdx, wi, gErr, ctxDone, ret,
                   lateStart, faults>>
    /\ UNCHANGED <<tblChunks, tblVec, inTx, snapshot, notEmbed>>

\* Insert: every row of the batch written and COMMIT succeeded; the loop of
\* embedData ends after the last batch and goes on otherwise
WorkerCommit(w) ==
    /\ wpc[w] = "tx"
    /\ LET end == BatchEnd(wi[w], chunkedFiles[w])
           t == WriteRows([chunks |-> tblChunks, vec |-> tblVec],
                          Embedded(w, wi[w], end))
       IN  /\ tblChunks' = t.chunks
           /\ tblVec' = t.vec
           /\ IF end = chunkedFiles[w]
              THEN /\ wpc' = [wpc EXCEPT ![w] = "released"]
                   /\ semCur' = semCur - 1
                   /\ UNCHANGED wi
              ELSE /\ wpc' = [wpc EXCEPT ![w] = "embed"]
                   /\ wi' = [wi EXCEPT ![w] = end]
                   /\ UNCHANGED semCur
    /\ inTx' = FALSE
    /\ UNCHANGED <<chunkedFiles, mainPc, fileIdx, werr, gErr, ctxDone, ret,
                   lateStart, snapshot, faults>>
    /\ UNCHANGED notEmbed

\* Insert: a statement failed after `written` rows of the batch, or COMMIT
\* failed after all of them; the deferred ROLLBACK is executed
WorkerRollback(w, written) ==
    /\ wpc[w] = "tx"
    /\ faults < MaxFaults
    /\ faults' = faults + 1
    /\ LET end == BatchEnd(wi[w], chunkedFiles[w])
           t == WriteRows([chunks |-> tblChunks, vec |-> tblVec],
                          SubSeq(Embedded(w, wi[w], end), 1, written))
           back == Rollback(snapshot, t)
       IN  /\ written <= end - wi[w]
           /\ tblChunks' = back.chunks
           /\ tblVec' = back.vec
           /\ werr' = [werr EXCEPT ![w] = InsertError(w, wi[w], end, "insert")]
    /\ inTx' = FALSE
    /\ wpc' = [wpc EXCEPT ![w] = "released"]
    /\ semCur' = semCur - 1
    /\ UNCHANGED <<chunkedFiles, mainPc, fileIdx, wi, gErr, ctxDone, ret,
                   lateStart, snapshot>>
    /\ UNCHANGED notEmbed

\* the errgroup's wrapper after the function returned: the first error is
\* kept and cancels the context; the worker is done
WorkerDone(w) ==
    /\ wpc[w] = "released"
    /\ IF werr[w] # NoErr /\ gErr = NoErr
       THEN /\ gErr' = werr[w]
            /\ ctxDone' = TRUE
       ELSE UNCHANGED <<gErr, ctxDone>>
    /\ wpc' = [wpc EXCEPT ![w] = "done"]
    /\ UNCHANGED <<chunkedFiles, mainPc, fileIdx, semCur, wi, werr, ret, lateStart, faults>>
    /\ UNCHANGED <<tblChunks, tblVec, inTx, snapshot, notEmbed>>

EmbedCauses == {"failed", "canceled"}

InitEmbed == EmbedInit /\ VecIdle /\ ChatIdle /\ TruncIdle /\ AdapterIdle /\ AppIdle

NextEmbed ==
    \/ Acquire
    \/ AcquireCanceled
    \/ Go
    \/ Wait
    \/ \E w \in Sources : WorkerReturnNil(w)
    \/ \E w \in Sources, c \in EmbedCauses : WorkerEmbedErr(w, c)
    \/ \E w \in Sources : WorkerBegin(w)
    \/ \E w \in Sources : WorkerBeginBusy(w)
    \/ \E w \in Sources : WorkerCommit(w)
    \/ \E w \in Sources, n \in 0..embedBatchSize : WorkerRollback(w, n)
    \/ \E w \in Sources : WorkerDone(w)

SpecEmbed == InitEmbed /\ [][NextEmbed]_vars

\* ------------------------------ specification: SendStream and drainStream
\* One call of SendStream with the CLI drain loop as its consumer.  ppc is the
\* statement of the producer goroutine, sending the chunk it is blocked on,
\* carried the chunks that crossed the unbuffered channel, cpc the statement
\* of drainStream, sYielded the deltas the iterator handed to the range loop.
notStream == <<chatVars, truncVars, vecVars, embedVars, appVars>>

\* Chunk{Content: res.Content}
ContentChunk(d) == [Err |-> "none", Content |-> d]

\* Chunk{Err: ...}: the error of the open, the wrapped error of the iterator,
\* or io.EOF
ErrChunk(e) == [Err |-> e, Content |-> <<>>]

\* A delta is the sequence of its pieces: a blank, a letter, or the text of a
\* tag taken as one piece.
reasoningStartTag == <<"<think>">>

reasoningEndTag == <<"</think>">>

\* the deltas of the bounded runs: both tags, a start tag followed by a blank,
\* a blank delta, and text that ends in a blank
StreamDeltas == {reasoningStartTag, <<"<think>", " ">>, reasoningEndTag,
                 <<" ">>, <<"a", " ">>}

RECURSIVE TrimLeft(_)
TrimLeft(d) ==
    IF d = <<>> THEN d
    ELSE IF Head(d) = " " THEN TrimLeft(Tail(d)) ELSE d

RECURSIVE TrimRight(_)
TrimRight(d) ==
    IF d = <<>> THEN d
    ELSE IF d[Len(d)] = " " THEN TrimRight(SubSeq(d, 1, Len(d) - 1)) ELSE d

\* strings.TrimSpace
TrimSpace(d) == TrimRight(TrimLeft(d))

\* a test that finds no delta blank
BlankNever(d) == FALSE

\* strings.TrimSpace(chunk.Content) == ""
Blank(d) == TrimSpace(d) = <<>>

\* one turn of the loop of drainStream on a chunk without error: the locals
\* and the output after it
DrainTurn(st, d) ==
    LET t == TrimSpace(d)
        r == IF t = reasoningStartTag THEN TRUE ELSE st.reasoning
    IN  IF t = reasoningEndTag
          THEN [reasoning |-> FALSE, reasoningDone |-> TRUE, printed |-> st.printed]
        ELSE IF r
          THEN [reasoning |-> TRUE, reasoningDone |-> st.reasoningDone,
                printed |-> st.printed]
        ELSE IF st.reasoningDone /\ Blank(d)
          THEN [reasoning |-> FALSE, reasoningDone |-> FALSE, printed |-> st.printed]
        ELSE [reasoning |-> FALSE, reasoningDone |-> FALSE,
              printed |-> Append(st.printed, d)]

\* a producer that goes on with the loop after every send
AfterSendContinue(at) == "range"

\* where the goroutine goes once its send returned: a content chunk is sent
\* in the loop body, every other send is followed by return (or is the last
\* statement), which runs the deferred close
AfterSend(at) == IF at = "send" THEN "range" ELSE "close"

\* the error an iterator hands to the loop: a refusal, a failed stream or a
\* cancelled one
IterCauses == {"refused", "failed", "canceled"}

StreamInit ==
    /\ ppc = "open" /\ sending = NoChunk /\ carried = <<>> /\ chClosed = FALSE
    /\ cpc = "select" /\ cRet = "none" /\ sCtxDone = FALSE /\ sYielded = <<>>
    /\ sEnd = "none"
    /\ reasoning = FALSE /\ reasoningDone = FALSE /\ printed = <<>>

\* s.SendStreaming returns an iterator
ProducerOpen ==
    /\ ppc = "open"
    /\ ppc' = "range"
    /\ UNCHANGED <<sending, carried, chClosed, cpc, cRet, sCtxDone, sYielded,
                   sEnd, drainLocals, notStream>>

\* s.SendStreaming returns an error: the goroutine sends it and returns
ProducerOpenFail ==
    /\ ppc = "open"
    /\ sEnd' = "open"
    /\ sending' = ErrChunk("open")
    /\ ppc' = "sendLast"
    /\ UNCHANGED <<carried, chClosed, cpc, cRet, sCtxDone, sYielded, drainLocals, notStream>>

\* the iterator yields a delta (never an empty one)
IterDelta(d) ==
    /\ ppc = "range"
    /\ Len(sYielded) < MaxDeltas
    /\ sYielded' = Append(sYielded, d)
    /\ sending' = ContentChunk(d)
    /\ ppc' = "send"
    /\ UNCHANGED <<carried, chClosed, cpc, cRet, sCtxDone, sEnd, drainLocals, notStream>>

\* the iterator yields an error and ends
IterError(cause) ==
    /\ ppc = "range"
    /\ (cause = "canceled") => sCtxDone
    /\ sEnd' = cause
    /\ sending' = ErrChunk("llm stream")
    /\ ppc' = "sendLast"
    /\ UNCHANGED <<carried, chClosed, cpc, cRet, sCtxDone, sYielded, drainLocals, notStream>>

\* the iterator ends without an error: the loop is left and io.EOF is sent
IterEnd ==
    /\ ppc = "range"
    /\ sEnd' = "clean"
    /\ sending' = ErrChunk("EOF")
    /\ ppc' = "sendLast"
    /\ UNCHANGED <<carried, chClosed, cpc, cRet, sCtxDone, sYielded, drainLocals, notStream>>

\* drainStream's case c, ok := <-ch.  On a closed channel it returns nil.
\* Otherwise the receive meets a blocked send: the chunk crosses the channel,
\* the producer goes on, and the loop returns on a chunk with an error (nil
\* for io.EOF) or filters the content and takes the next turn.
Receive ==
    /\ cpc = "select"
    /\ IF chClosed
         THEN /\ cpc' = "returned"
              /\ cRet' = "nil"
              /\ UNCHANGED <<ppc, sending, carried, drainLocals>>
         ELSE /\ ppc \in {"send", "sendLast"}
              /\ carried' = Append(carried, sending)
              /\ sending' = NoChunk
              /\ ppc' = AfterSend(ppc)
              /\ IF sending.Err = "none"
                   THEN LET st == DrainTurn([reasoning |-> reasoning,
                                             reasoningDone |-> reasoningDone,
                                             printed |-> printed],
                                            sending.Content)
                        IN  /\ reasoning' = st.reasoning
                            /\ reasoningDone' = st.reasoningDone
                            /\ printed' = st.printed
                            /\ UNCHANGED <<cpc, cRet>>
                   ELSE /\ cpc' = "returned"
                        /\ cRet' = IF sending.Err = "EOF" THEN "nil" ELSE "err"
                        /\ UNCHANGED drainLocals
    /\ UNCHANGED <<chClosed, sCtxDone, sYielded, sEnd, notStream>>

\* drainStream's case <-ctx.Done(): it returns ctx.Err() and stops receiving
DrainCanceled ==
    /\ cpc = "select"
    /\ sCtxDone
    /\ cpc' = "returned"
    /\ cRet' = "ctx"
    /\ UNCHANGED <<ppc, sending, carried, chClosed, sCtxDone, sYielded, sEnd,
                   drainLocals, notStream>>

\* the deferred close(ch) of the goroutine
ProducerClose ==
    /\ ppc = "close"
    /\ chClosed' = TRUE
    /\ ppc' = "done"
    /\ UNCHANGED <<sending, carried, cpc, cRet, sCtxDone, sYielded, sEnd,
                   drainLocals, notStream>>

\* the caller's context is cancelled while the answer is streamed
CancelStream ==
    /\ ~sCtxDone
    /\ ppc # "done"
    /\ cpc = "select"
    /\ sCtxDone' = TRUE
    /\ UNCHANGED <<ppc, sending, carried, chClosed, cpc, cRet, sYielded, sEnd,
                   drainLocals, notStream>>

InitStream == StreamInit /\ ChatIdle /\ TruncIdle /\ VecIdle /\ EmbedIdle /\ AppIdle

\* the steps of the two goroutines
StreamSteps ==
    \/ ProducerOpen
    \/ ProducerOpenFail
    \/ \E d \in StreamDeltas : IterDelta(d)
    \/ \E c \in IterCauses : IterError(c)
    \/ IterEnd
    \/ Receive
    \/ DrainCanceled
    \/ ProducerClose

NextStream == StreamSteps \/ CancelStream

SpecStream == InitStream /\ [][NextStream]_vars

\* the scheduler runs a goroutine that can take a step; the cancellation is
\* the caller's and need not happen
SpecStreamLive == SpecStream /\ WF_vars(StreamSteps)

\* ---------------------------------- specification: Providers.ProviderFor
ModelIds == {"chat", "emb"}

\* the registries of the bounded runs: up to MaxProviders providers, each
\* with any AvailableModels over ModelIds
Registries == UNION {[1..n -> SUBSET ModelIds] : n \in 0..MaxProviders}

notRoute == <<chatVars, truncVars, vecVars, embedVars, adapterVars, cleanVars, procVars,
              extVars>>

\* Provider.Supports
Supports(p, model) == model \in p

\* the loop of ProviderFor from provider i on
RECURSIVE ProviderForFrom(_, _, _)
ProviderForFrom(ps, model, i) ==
    IF i > Len(ps) THEN [idx |-> 0, err |-> "no provider found"]
    ELSE IF Supports(ps[i], model) THEN [idx |-> i, err |-> "nil"]
    ELSE ProviderForFrom(ps, model, i + 1)

\* a lookup that goes on after a match and returns the last one
RECURSIVE ProviderForLastFrom(_, _, _)
ProviderForLastFrom(ps, model, i) ==
    IF i < 1 THEN [idx |-> 0, err |-> "no provider found"]
    ELSE IF Supports(ps[i], model) THEN [idx |-> i, err |-> "nil"]
    ELSE ProviderForLastFrom(ps, model, i - 1)

ProviderForLast(ps, model) == ProviderForLastFrom(ps, model, Len(ps))

\* Providers.ProviderFor: the provider found (its place in the registry) and
\* the error
ProviderFor(ps, model) == ProviderForFrom(ps, model, 1)

ProviderForInit ==
    /\ providers \in Registries
    /\ selectedModel = "" /\ embeddingModel = ""
    /\ rpath = "off" /\ rpc = "off" /\ rProvider = 0 /\ embedVia = 0
    /\ chatVia = 0 /\ rErr = "none" /\ lookedUp = NoLookup

\* a call of ProviderFor on its own, as validateSelectedModels makes it
Lookup(m) ==
    /\ rpc = "off"
    /\ LET r == ProviderFor(providers, m)
       IN  lookedUp' = [model |-> m, idx |-> r.idx, err |-> r.err]
    /\ UNCHANGED <<providers, selectedModel, embeddingModel, rpath, rpc, rProvider,
                   embedVia, chatVia, rErr, notRoute>>

InitProviderFor ==
    /\ ProviderForInit /\ CleanIdle /\ ProcIdle /\ ExtIdle
    /\ ChatIdle /\ TruncIdle /\ VecIdle /\ EmbedIdle /\ AdapterIdle

NextProviderFor == \E m \in ModelIds : Lookup(m)

SpecProviderFor == InitProviderFor /\ [][NextProviderFor]_vars

\* -------------------- specification: one request, QueryOptions.Run or the TUI
\* the model a request looks its provider up with: the embedding model in
\* QueryOptions.Run, the selected model in startRAGCmd
LookupModel(path) == IF path = "query" THEN embeddingModel ELSE selectedModel

\* After startup: initVecDim found a provider for the embedding model and
\* validateQueryParams found both model names set.
RouteInit ==
    /\ providers \in Registries
    /\ selectedModel \in ModelIds
    /\ embeddingModel \in ModelIds
    /\ ProviderFor(providers, embeddingModel).err = "nil"
    /\ rpath \in {"query", "tui"}
    /\ rpc = "provider"
    /\ rProvider = 0 /\ embedVia = 0 /\ chatVia = 0 /\ rErr = "none"
    /\ lookedUp = NoLookup

\* the ProviderFor call of the request
RouteProvider ==
    /\ rpc = "provider"
    /\ LET r == ProviderFor(providers, LookupModel(rpath))
       IN  IF r.err # "nil"
             THEN /\ rErr' = "provider for"
                  /\ rpc' = "returned"
                  /\ UNCHANGED rProvider
             ELSE /\ rProvider' = r.idx
                  /\ rpc' = "embed"
                  /\ UNCHANGED rErr
    /\ UNCHANGED <<providers, selectedModel, embeddingModel, rpath, embedVia,
                   chatVia, lookedUp, notRoute>>

\* provider.Client.Embed of the query text with the embedding model
RouteEmbed(ok) ==
    /\ rpc = "embed"
    /\ embedVia' = rProvider
    /\ rpc' = IF ok THEN "search" ELSE "returned"
    /\ rErr' = IF ok THEN rErr ELSE "embed"
    /\ UNCHANGED <<providers, selectedModel, embeddingModel, rpath, rProvider,
                   chatVia, lookedUp, notRoute>>

\* SearchKNN and BuildUserPrompt
RouteSearch(ok) ==
    /\ rpc = "search"
    /\ rpc' = IF ok THEN "send" ELSE "returned"
    /\ rErr' = IF ok THEN rErr ELSE "search"
    /\ UNCHANGED <<providers, selectedModel, embeddingModel, rpath, rProvider,
                   embedVia, chatVia, lookedUp, notRoute>>

\* QueryOptions.Run with dryRun: the prompt is printed, no chat is opened
RouteDryRun ==
    /\ rpc = "send"
    /\ rpath = "query"
    /\ rpc' = "returned"
    /\ rErr' = "nil"
    /\ UNCHANGED <<providers, selectedModel, embeddingModel, rpath, rProvider,
                   embedVia, chatVia, lookedUp, notRoute>>

\* prompt.SendStream(ctx, provider.Session, ...) with the selected model
RouteSendStream ==
    /\ rpc = "send"
    /\ chatVia' = rProvider
    /\ rpc' = "streaming"
    /\ UNCHANGED <<providers, selectedModel, embeddingModel, rpath, rProvider,
                   embedVia, rErr, lookedUp, notRoute>>

InitRoute ==
    /\ RouteInit /\ CleanIdle /\ ProcIdle /\ ExtIdle
    /\ ChatIdle /\ TruncIdle /\ VecIdle /\ EmbedIdle /\ AdapterIdle

NextRoute ==
    \/ RouteProvider
    \/ \E ok \in BOOLEAN : RouteEmbed(ok)
    \/ \E ok \in BOOLEAN : RouteSearch(ok)
    \/ RouteDryRun
    \/ RouteSendStream

SpecRoute == InitRoute /\ [][NextRoute]_vars

\* -------------------------------------- specification: executeCleanup
notApp == <<chatVars, truncVars, vecVars, embedVars, adapterVars, extVars>>

\* the lists of the bounded runs: up to MaxCallbacks registered callbacks,
\* each returning nil or an error; a callback is named by its place
CallbackLists ==
    UNION {{[i \in 1..n |-> [id |-> i, fails |-> f[i], isNil |-> FALSE]] :
                f \in [1..n -> BOOLEAN]} : n \in 0..MaxCallbacks}

\* a join that keeps the last error only
JoinLast(errs) ==
    LET e == SelectSeq(errs, LAMBDA x : x # "nil")
    IN  IF e = <<>> THEN <<>> ELSE <<e[Len(e)]>>

\* errors.Join: the non-nil errors in their order (the empty sequence is nil)
Join(errs) == SelectSeq(errs, LAMBDA x : x # "nil")

\* the error a failing callback returns
CallbackErr(f) == IF f.fails THEN <<"cleanup", f.id>> ELSE "nil"

CleanupInit ==
    /\ cleanupFuncs \in CallbackLists
    /\ kpc = "call" /\ kI = 0 /\ kErrs = <<>> /\ kRan = <<>> /\ kInv = 0
    /\ kRet = "none"

\* executeCleanup is entered: errs is nil, i is len(fs) - 1
CleanupEnter ==
    /\ kpc = "call"
    /\ kI' = Len(cleanupFuncs)
    /\ kErrs' = <<>>
    /\ kpc' = "loop"
    /\ UNCHANGED <<cleanupFuncs, kRan, kInv, kRet, routeVars, procVars, notApp>>

\* one turn of the loop.  On a nil place: continue.  Otherwise the place is
\* nilled, the callback is called and what it returns is appended to errs.
\* The callback of the program closes the log file.
CleanupTurn ==
    /\ kpc = "loop" /\ kI >= 1
    /\ kI' = kI - 1
    /\ IF cleanupFuncs[kI].isNil
         THEN UNCHANGED <<cleanupFuncs, kRan, kErrs, logFile>>
         ELSE /\ cleanupFuncs' = [cleanupFuncs EXCEPT ![kI].isNil = TRUE]
              /\ kRan' = Append(kRan, cleanupFuncs[kI].id)
              /\ kErrs' = Append(kErrs, CallbackErr(cleanupFuncs[kI]))
              /\ logFile' = IF logFile = "open" THEN "closed" ELSE logFile
    /\ UNCHANGED <<kpc, kInv, kRet, routeVars, cmdName, bpc, ran, served, llmDim,
                   vectordb, clients, primary, reported, exitCode, inflight,
                   reqCtxDone, streamOpen, notApp>>

\* the loop is over: errors.Join(errs...) is returned
CleanupReturn ==
    /\ kpc = "loop" /\ kI = 0
    /\ kRet' = Join(kErrs)
    /\ kInv' = kInv + 1
    /\ kpc' = "returned"
    /\ UNCHANGED <<cleanupFuncs, kI, kErrs, kRan, routeVars, procVars, notApp>>

\* executeCleanup is called again on the same list
CleanupAgain ==
    /\ kpc = "returned"
    /\ bpc = "off"
    /\ kInv < MaxInvocations
    /\ kpc' = "call"
    /\ UNCHANGED <<cleanupFuncs, kI, kErrs, kRan, kInv, kRet, routeVars, procVars,
                   notApp>>

InitCleanup ==
    /\ CleanupInit /\ RouteIdle /\ ProcIdle /\ ExtIdle
    /\ ChatIdle /\ TruncIdle /\ VecIdle /\ EmbedIdle /\ AdapterIdle

CleanupSteps ==
    \/ CleanupEnter
    \/ CleanupTurn
    \/ CleanupReturn

NextCleanup == CleanupSteps \/ CleanupAgain

SpecCleanup == InitCleanup /\ [][NextCleanup]_vars

\* ------------------------------ specification: one run of the command line
\* PersistentPreRunE (planFor and the startup steps), the command (query or
\* chat) and PersistentPostRunE (executeCleanup), each result handed to
\* clierror.Check, whose handler is FatalErrHandler.
ConfigModels == ModelIds \cup {""}

\* what the servers of the configured providers list
Servers == UNION {[1..n -> SUBSET ModelIds] : n \in 1..MaxServers}

\* the lengths of the vector the dimension probe can come back with
ProbeDims == {0, 2}

\* the steps planFor adds for query and chat, in its order
StepOrder ==
    <<"initLogger", "validateQueryParams", "initProviders", "initLLMModels",
      "validateSelectedModels", "initVecDim", "initVecdb">>

\* the steps planFor plans for the name the command was called as
PlanFor(called) ==
    IF called \in {"query", "chat", "tui"} THEN StepOrder ELSE <<>>

reqVars == <<inflight, reqCtxDone, streamOpen>>

\* a loop that goes on with the next step after a failed one
AfterStepGoOn(err, k) == IF k = Len(PlanFor(cmdName)) THEN "command" ELSE "steps"

\* where the process is after step k returned err: DefaultRAGOptions.Run
\* returns the first error, Check hands it to FatalErrHandler and the process
\* exits; after the last step the command runs
AfterStep(err, k) ==
    IF err # "nil" THEN "exited"
    ELSE IF k = Len(PlanFor(cmdName)) THEN "command" ELSE "steps"

\* the loop of DefaultRAGOptions.Run is at the step
AtStep(name) ==
    /\ bpc = "steps"
    /\ Len(ran) < Len(PlanFor(cmdName))
    /\ PlanFor(cmdName)[Len(ran) + 1] = name

\* the step returned err
StepDone(name, err) ==
    /\ ran' = Append(ran, [step |-> name, err |-> err])
    /\ bpc' = AfterStep(err, Len(ran) + 1)
    /\ primary' = IF err # "nil" /\ primary = "nil" THEN err ELSE primary
    /\ reported' = IF err # "nil" THEN Append(reported, err) ELSE reported
    /\ exitCode' = IF err # "nil" THEN 1 ELSE exitCode

\* validateSelectedModels: one error per selected model without a provider
validateSelectedModels(ps, selected) ==
    LET bad == SelectSeq(selected, LAMBDA m : ProviderFor(ps, m).err # "nil")
    IN  [i \in 1..Len(bad) |-> <<"provider for", bad[i]>>]

AppInit ==
    /\ cmdName \in {"query", "q", "chat"}
    /\ selectedModel \in ConfigModels
    /\ embeddingModel \in ConfigModels
    /\ served \in Servers
    /\ bpc = "steps" /\ ran = <<>> /\ providers = <<>> /\ llmDim = 0
    /\ vectordb = NoVecdb /\ logFile = "none" /\ clients = "none"
    /\ primary = "nil" /\ reported = <<>> /\ exitCode = -1
    /\ inflight = "none" /\ reqCtxDone = FALSE /\ streamOpen = FALSE
    /\ rpath = "off" /\ rpc = "off" /\ rProvider = 0 /\ embedVia = 0
    /\ chatVia = 0 /\ rErr = "none" /\ lookedUp = NoLookup
    /\ CleanIdle /\ ExtIdle

\* initLogger: the log file is opened and its Close registered for cleanup
StepInitLogger(ok, closeFails) ==
    /\ AtStep("initLogger")
    /\ IF ok
         THEN /\ logFile' = "open"
              /\ cleanupFuncs' =
                    Append(cleanupFuncs, [id |-> Len(cleanupFuncs) + 1,
                                          fails |-> closeFails, isNil |-> FALSE])
              /\ StepDone("initLogger", "nil")
         ELSE /\ ~closeFails
              /\ UNCHANGED <<logFile, cleanupFuncs>>
              /\ StepDone("initLogger", "open log file")
    /\ UNCHANGED <<kpc, kI, kErrs, kRan, kInv, kRet, routeVars, cmdName, served, llmDim,
                   vectordb, clients, reqVars, notApp>>

\* validateQueryParams
StepValidateQueryParams(patternsOk) ==
    /\ AtStep("validateQueryParams")
    /\ StepDone("validateQueryParams",
                IF selectedModel = "" THEN "missing LLM model"
                ELSE IF embeddingModel = "" THEN "missing embedding model"
                ELSE IF ~patternsOk THEN "bad pattern" ELSE "nil")
    /\ UNCHANGED <<cleanVars, routeVars, cmdName, served, llmDim, vectordb, logFile,
                   clients, reqVars, notApp>>

\* initProviders: a client and a session per configured provider; made is the
\* number of providers built before createClient or createSession failed
StepInitProviders(made) ==
    /\ AtStep("initProviders")
    /\ made \in 0..Len(served)
    /\ providers' = [i \in 1..made |-> {}]
    /\ clients' = IF made > 0 THEN "open" ELSE clients
    /\ StepDone("initProviders", IF made = Len(served) THEN "nil" ELSE "create client")
    /\ UNCHANGED <<cleanVars, selectedModel, embeddingModel, rpath, rpc, rProvider,
                   embedVia, chatVia, rErr, lookedUp, cmdName, served, llmDim,
                   vectordb, logFile, reqVars, notApp>>

\* initLLMModels: ListModels per provider in registry order; listed is the
\* number of providers listed before a ListModels failed
StepInitLLMModels(listed) ==
    /\ AtStep("initLLMModels")
    /\ listed \in 0..Len(providers)
    /\ providers' = [i \in 1..Len(providers) |->
                        IF i <= listed THEN served[i] ELSE providers[i]]
    /\ StepDone("initLLMModels",
                IF listed = Len(providers) THEN "nil" ELSE "llm list models")
    /\ UNCHANGED <<cleanVars, selectedModel, embeddingModel, rpath, rpc, rProvider,
                   embedVia, chatVia, rErr, lookedUp, cmdName, served, llmDim,
                   vectordb, logFile, clients, reqVars, notApp>>

\* the step planFor adds: validateSelectedModels(o.llmOptions), called with no
\* selected model
StepValidateSelectedModels ==
    /\ AtStep("validateSelectedModels")
    /\ StepDone("validateSelectedModels",
                IF validateSelectedModels(providers, <<>>) = <<>> THEN "nil"
                ELSE "provider for")
    /\ UNCHANGED <<cleanVars, routeVars, cmdName, served, llmDim, vectordb, logFile,
                   clients, reqVars, notApp>>

\* initVecDim: dimFor embeds the empty input through the provider of the
\* embedding model and takes the length of the vector
StepInitVecDim(embedOk, d) ==
    /\ AtStep("initVecDim")
    /\ LET err == IF embeddingModel = "" THEN "missing embedding model"
                  ELSE IF ProviderFor(providers, embeddingModel).err # "nil"
                         THEN "init embedding dim"
                  ELSE IF ~embedOk THEN "init embedding dim" ELSE "nil"
       IN  /\ llmDim' = IF err = "nil" THEN d ELSE llmDim
           /\ StepDone("initVecDim", err)
    /\ UNCHANGED <<cleanVars, routeVars, cmdName, served, vectordb, logFile, clients,
                   reqVars, notApp>>

\* initVecdb: vecdb.New(o.llmOptions.dim)
StepInitVecdb(ok) ==
    /\ AtStep("initVecdb")
    /\ LET err == IF llmDim = 0 THEN "missing dimension"
                  ELSE IF ~ok THEN "create vector database" ELSE "nil"
       IN  /\ vectordb' = IF err = "nil" THEN [state |-> "open", dim |-> llmDim]
                          ELSE vectordb
           /\ StepDone("initVecdb", err)
    /\ UNCHANGED <<cleanVars, routeVars, cmdName, served, llmDim, logFile, clients,
                   reqVars, notApp>>

\* DefaultRAGOptions.Run with no step planned returns nil at once
RunNoSteps ==
    /\ bpc = "steps"
    /\ PlanFor(cmdName) = <<>>
    /\ bpc' = "command"
    /\ UNCHANGED <<cleanVars, routeVars, cmdName, ran, served, llmDim, vectordb,
                   logFile, clients, primary, reported, exitCode, reqVars, notApp>>

\* the command is the query command
IsQuery == cmdName \in {"query", "q"}

\* clierror.Check on a non-nil error of the command: FatalErrHandler prints
\* it and calls os.Exit
CheckedExit(err) ==
    /\ primary' = IF primary = "nil" THEN err ELSE primary
    /\ reported' = Append(reported, err)
    /\ exitCode' = 1
    /\ bpc' = "exited"

\* the command returns an error before it has a request in flight (no input
\* to embed, a failed embedding, a failed search, a failed TUI program)
CommandFail ==
    /\ bpc = "command"
    /\ IsQuery => (inflight = "none")
    /\ CheckedExit("command")
    /\ UNCHANGED <<cleanVars, routeVars, cmdName, ran, served, llmDim, vectordb,
                   logFile, clients, reqVars, notApp>>

\* QueryOptions.Run with dryRun: the prompt is printed and nil returned; the
\* deferred cancel runs
QueryDryRun ==
    /\ bpc = "command" /\ IsQuery /\ inflight = "none"
    /\ ProviderFor(providers, embeddingModel).err = "nil"
    /\ reqCtxDone' = TRUE
    /\ bpc' = "post"
    /\ UNCHANGED <<cleanVars, routeVars, cmdName, ran, served, llmDim, vectordb,
                   logFile, clients, primary, reported, exitCode, inflight,
                   streamOpen, notApp>>

\* QueryOptions.Run found the provider of the embedding model, embedded the
\* query through it and opens the stream of its answer
QueryStart ==
    /\ bpc = "command" /\ IsQuery /\ inflight = "none"
    /\ ProviderFor(providers, embeddingModel).err = "nil"
    /\ inflight' = "streaming"
    /\ streamOpen' = TRUE
    /\ UNCHANGED <<cleanVars, routeVars, cmdName, bpc, ran, served, llmDim, vectordb,
                   logFile, clients, primary, reported, exitCode, reqCtxDone, notApp>>

\* the stream ended cleanly: the iterator returned (its deferred stream.Close
\* ran), drainStream received io.EOF, Run returns nil and its deferred cancel
\* runs
QueryStreamEnd ==
    /\ bpc = "command" /\ IsQuery /\ inflight = "streaming"
    /\ inflight' = "ended"
    /\ streamOpen' = FALSE
    /\ reqCtxDone' = TRUE
    /\ bpc' = "post"
    /\ UNCHANGED <<cleanVars, routeVars, cmdName, ran, served, llmDim, vectordb,
                   logFile, clients, primary, reported, exitCode, notApp>>

\* drainStream returned an error: the error chunk of a failed stream (the
\* iterator returned and closed it), or ctx.Err() on an interrupt (the
\* producer may not have closed the stream yet); Run returns it, its deferred
\* cancel runs, Check exits
QueryStreamFail(interrupted, closed) ==
    /\ bpc = "command" /\ IsQuery /\ inflight = "streaming"
    /\ interrupted \/ closed
    /\ inflight' = "ended"
    /\ streamOpen' = ~closed
    /\ reqCtxDone' = TRUE
    /\ CheckedExit("response stream")
    /\ UNCHANGED <<cleanVars, routeVars, cmdName, ran, served, llmDim, vectordb,
                   logFile, clients, notApp>>

\* model.sendPrompt: a new context for the request; startRAGCmd found the
\* provider of the selected model and opens the stream
TuiSend ==
    /\ bpc = "command" /\ cmdName = "chat" /\ inflight # "streaming"
    /\ ProviderFor(providers, selectedModel).err = "nil"
    /\ inflight' = "streaming"
    /\ reqCtxDone' = FALSE
    /\ streamOpen' = TRUE
    /\ UNCHANGED <<cleanVars, routeVars, cmdName, bpc, ran, served, llmDim, vectordb,
                   logFile, clients, primary, reported, exitCode, notApp>>

\* model.handleTextarea on esc: m.cancel()
TuiEsc ==
    /\ bpc = "command" /\ cmdName = "chat" /\ inflight = "streaming"
    /\ ~reqCtxDone
    /\ reqCtxDone' = TRUE
    /\ UNCHANGED <<cleanVars, routeVars, cmdName, bpc, ran, served, llmDim, vectordb,
                   logFile, clients, primary, reported, exitCode, inflight,
                   streamOpen, notApp>>

\* the stream of the TUI's request ends (cleanly, with an error, or because
\* its context was cancelled): the iterator returns and closes it.  The
\* goroutine runs on whatever the TUI does, until the process exits.
TuiStreamEnd ==
    /\ bpc \in {"command", "post", "cleanup"}
    /\ cmdName = "chat" /\ inflight = "streaming"
    /\ inflight' = "ended"
    /\ streamOpen' = FALSE
    /\ UNCHANGED <<cleanVars, routeVars, cmdName, bpc, ran, served, llmDim, vectordb,
                   logFile, clients, primary, reported, exitCode, reqCtxDone, notApp>>

\* model.handleKey on ctrl+c: tea.Quit; the program and ChatOptions.Run
\* return nil
TuiQuit ==
    /\ bpc = "command" /\ cmdName = "chat"
    /\ bpc' = "post"
    /\ UNCHANGED <<cleanVars, routeVars, cmdName, ran, served, llmDim, vectordb,
                   logFile, clients, primary, reported, exitCode, reqVars, notApp>>

\* PersistentPostRunE calls executeCleanup(o.cleanupFuncs)
AppPost ==
    /\ bpc = "post"
    /\ kpc' = "call"
    /\ bpc' = "cleanup"
    /\ UNCHANGED <<cleanupFuncs, kI, kErrs, kRan, kInv, kRet, routeVars, cmdName, ran,
                   served, llmDim, vectordb, logFile, clients, primary, reported,
                   exitCode, reqVars, notApp>>

\* clierror.Check on what executeCleanup returned, then the process ends: with
\* code 1 in FatalErrHandler on an error, with code 0 from main otherwise
AppExit ==
    /\ bpc = "cleanup" /\ kpc = "returned"
    /\ reported' = IF kRet # <<>> THEN Append(reported, kRet) ELSE reported
    /\ exitCode' = IF kRet # <<>> THEN 1 ELSE 0
    /\ bpc' = "exited"
    /\ UNCHANGED <<cleanVars, routeVars, cmdName, ran, served, llmDim, vectordb,
                   logFile, clients, primary, reqVars, notApp>>

InitApp ==
    /\ AppInit
    /\ ChatIdle /\ TruncIdle /\ VecIdle /\ EmbedIdle /\ AdapterIdle

NextApp ==
    \/ \E ok \in BOOLEAN, closeFails \in BOOLEAN : StepInitLogger(ok, closeFails)
    \/ \E patternsOk \in BOOLEAN : StepValidateQueryParams(patternsOk)
    \/ \E made \in 0..MaxServers : StepInitProviders(made)
    \/ \E listed \in 0..MaxServers : StepInitLLMModels(listed)
    \/ StepValidateSelectedModels
    \/ \E embedOk \in BOOLEAN, d \in ProbeDims : StepInitVecDim(embedOk, d)
    \/ \E ok \in BOOLEAN : StepInitVecdb(ok)
    \/ RunNoSteps
    \/ CommandFail
    \/ QueryDryRun
    \/ QueryStart
    \/ QueryStreamEnd
    \/ \E interrupted \in BOOLEAN, closed \in BOOLEAN :
          QueryStreamFail(interrupted, closed)
    \/ TuiSend
    \/ TuiEsc
    \/ TuiStreamEnd
    \/ TuiQuit
    \/ AppPost
    \/ CleanupSteps
    \/ AppExit

SpecApp == InitApp /\ [][NextApp]_vars

\* ------------------------------------------------------------- SpecChunk
\* ChunkText (cli/chunk.go) applied to bounded texts. A string is its bytes:
\* "a" is a one-byte codepoint, "L" followed by "T" the two bytes of one
\* codepoint, any other "L" or "T" an invalid byte.

\* everything but the call of ChunkText
notChunk == <<chatVars, truncVars, vecVars, embedVars, adapterVars, routeVars,
              cleanVars, procVars, promptVars, discVars, tuiVars, filterVars>>

Bytes == {"a", "L", "T"}

Texts == UNION {[1..n -> Bytes] : n \in 0..MaxText}

Min(a, b) == IF a <= b THEN a ELSE b

\* []rune(text): each codepoint one rune, each invalid byte utf8.RuneError
RECURSIVE ToRunes(_)
ToRunes(b) ==
    IF b = <<>> THEN <<>>
    ELSE IF b[1] = "a" THEN <<"a">> \o ToRunes(Tail(b))
    ELSE IF b[1] = "L" /\ Len(b) >= 2 /\ b[2] = "T"
         THEN <<"LT">> \o ToRunes(Tail(Tail(b)))
    ELSE <<"RuneError">> \o ToRunes(Tail(b))

\* the UTF-8 encoding of one rune
EncodeRune(r) ==
    CASE r = "a" -> <<"a">>
      [] r = "LT" -> <<"L", "T">>
      [] OTHER -> <<"EF", "BF", "BD">>

\* string(r[...]): the encodings of the runes, concatenated
RECURSIVE RunesToString(_)
RunesToString(r) ==
    IF r = <<>> THEN <<>> ELSE EncodeRune(Head(r)) \o RunesToString(Tail(r))

\* utf8.Valid
ValidUTF8(b) == RunesToString(ToRunes(b)) = b

StepWholeSize(size, overlap) == size
\* step := size - overlap
ChunkStep(size, overlap) == size - overlap

ChunkInit ==
    /\ ckText \in Texts
    /\ ckSize \in 0..MaxSize
    /\ ckOverlap \in -1..MaxSize
    /\ ckR = <<>> /\ ckI = 0 /\ ckOut = <<>> /\ ckErr = "nil" /\ ckPc = "call"

\* ChunkText up to its loop: the checks of size and overlap, r and n
ChunkEnter ==
    /\ ckPc = "call"
    /\ IF ckSize <= 0
       THEN ckErr' = "ErrInvalidChunkSize" /\ ckPc' = "done" /\ ckR' = ckR
       ELSE IF ckOverlap < 0 \/ ckOverlap >= ckSize
       THEN ckErr' = "ErrInvalidChunkOverlap" /\ ckPc' = "done" /\ ckR' = ckR
       ELSE ckErr' = ckErr /\ ckPc' = "loop" /\ ckR' = ToRunes(ckText)
    /\ UNCHANGED <<ckText, ckSize, ckOverlap, ckI, ckOut, notChunk>>

\* one iteration of the loop: append r[i:end], break when end == n
ChunkLoop ==
    /\ ckPc = "loop"
    /\ ckI < Len(ckR)
    /\ LET end == Min(ckI + ckSize, Len(ckR))
       IN /\ ckOut' = Append(ckOut, RunesToString(SubSeq(ckR, ckI + 1, end)))
          /\ IF end = Len(ckR)
             THEN ckPc' = "done" /\ ckI' = ckI
             ELSE ckPc' = "loop" /\ ckI' = ckI + ChunkStep(ckSize, ckOverlap)
    /\ UNCHANGED <<ckText, ckSize, ckOverlap, ckR, ckErr, notChunk>>

\* the loop condition i < n fails: return out
ChunkReturn ==
    /\ ckPc = "loop"
    /\ ~(ckI < Len(ckR))
    /\ ckPc' = "done"
    /\ UNCHANGED <<ckText, ckSize, ckOverlap, ckR, ckI, ckOut, ckErr, notChunk>>

InitChunk ==
    /\ ChunkInit /\ ChatIdle /\ TruncIdle /\ VecIdle /\ EmbedIdle /\ AdapterIdle
    /\ RouteIdle /\ CleanIdle /\ ProcIdle /\ PromptIdle /\ DiscIdle /\ TuiIdle
    /\ FilterIdle

NextChunk ==
    \/ ChunkEnter
    \/ ChunkLoop
    \/ ChunkReturn

SpecChunk == InitChunk /\ [][NextChunk]_vars

\* ------------------------------------------------------------ SpecPrompt
\* prompt.BuildUserPrompt (cli/prompt) over the hits of a search. A raw meta
\* is the JSON object vecdb.Meta encodes to (the set of its members), the
\* empty raw message, or malformed JSON.

\* everything but the call of BuildUserPrompt
notPrompt == <<chatVars, truncVars, vecVars, embedVars, adapterVars, routeVars,
               cleanVars, procVars, chunkVars, discVars, tuiVars, filterVars>>

\* the metas the pipeline stores: a source and the ordinal of the chunk
Metas == [Source : {"", "f"}, Index : {0, 2}]

\* json.Marshal of a vecdb.Meta: both fields are omitempty
EncodeMeta(m) ==
    [form |-> "object",
     obj |-> (IF m.Source = "" THEN {} ELSE {<<"path", [str |-> m.Source, num |-> 0]>>})
             \cup (IF m.Index = 0 THEN {}
                   ELSE {<<"index", [str |-> "", num |-> m.Index]>>})]

RawMetas ==
    {EncodeMeta(m) : m \in Metas}
        \cup {[form |-> "empty", obj |-> {}], [form |-> "malformed", obj |-> {}]}

\* the value of a key of a JSON object, zero when the key is missing
Member(obj, key) ==
    IF \E p \in obj : p[1] = key THEN (CHOOSE p \in obj : p[1] = key)[2]
    ELSE [str |-> "", num |-> 0]

\* vecdb.DecodeMeta
VecdbDecodeMeta(raw) ==
    IF raw.form = "empty" THEN [m |-> [Source |-> "", Index |-> 0], err |-> "nil"]
    ELSE IF raw.form = "malformed"
    THEN [m |-> [Source |-> "", Index |-> 0], err |-> "unmarshal"]
    ELSE [m |-> [Source |-> Member(raw.obj, "path").str,
                 Index |-> Member(raw.obj, "index").num],
          err |-> "nil"]

\* prompt.DecodeMeta
DecodeMeta(raw) ==
    LET d == VecdbDecodeMeta(raw)
    IN IF d.err # "nil" THEN [source |-> "", id |-> 0]
       ELSE [source |-> d.m.Source, id |-> d.m.Index]

IdOfMeta(id, i) == id
\* cmp.Or(id, i)
IdOr(id, i) == IF id # 0 THEN id ELSE i

\* cmp.Or(src, "unknown")
SourceOr(src) == IF src # "" THEN src ELSE "unknown"

HitContents == {<<"x">>, <<" ", "x", " ">>}

PromptHits == [Content : HitContents, Meta : RawMetas]

\* the chunkView of the hit at index i (from 0)
ChunkView(ch, i, metaFn) ==
    LET d == IF metaFn # "nil" THEN DecodeMeta(ch.Meta)
             ELSE [source |-> "", id |-> 0]
    IN [ID |-> IdOr(d.id, i), Source |-> SourceOr(d.source),
        Content |-> TrimSpace(ch.Content)]

Lit(text) == [kind |-> "lit", text |-> text]

\* the lines of one CHUNK block of DefaultUserPromptTmpl
RECURSIVE Blocks(_)
Blocks(views) ==
    IF views = <<>> THEN <<>>
    ELSE <<Lit("----"),
           [kind |-> "chunk", id |-> Head(views).ID, source |-> Head(views).Source],
           [kind |-> "text", content |-> Head(views).Content]>>
         \o Blocks(Tail(views))

\* DefaultUserPromptTmpl executed over td
Render(views) ==
    <<Lit("USER QUERY:"), Lit("q"), Lit(""), Lit("CONTEXT:")>>
    \o (IF views # <<>> THEN Blocks(views) \o <<Lit("----")>>
        ELSE <<Lit("(no relevant chunks)")>>)

PromptInit ==
    /\ upHits \in UNION {[1..n -> PromptHits] : n \in 0..MaxHits}
    /\ upMetaFn \in {"nil", "DecodeMeta"}
    /\ upTmpl \in {"default", "unclosed"}
    /\ upI = 0 /\ upViews = <<>> /\ upOut = <<>> /\ upErr = "nil" /\ upPc = "views"

\* one iteration of the loop over the hits
PromptView ==
    /\ upPc = "views"
    /\ upI < Len(upHits)
    /\ upViews' = Append(upViews, ChunkView(upHits[upI + 1], upI, upMetaFn))
    /\ upI' = upI + 1
    /\ UNCHANGED <<upHits, upMetaFn, upTmpl, upOut, upErr, upPc, notPrompt>>

\* the template is parsed
PromptParse ==
    /\ upPc = "views"
    /\ upI = Len(upHits)
    /\ IF upTmpl = "unclosed"
       THEN upErr' = "template parse error" /\ upPc' = "done"
       ELSE upErr' = upErr /\ upPc' = "render"
    /\ UNCHANGED <<upHits, upMetaFn, upTmpl, upI, upViews, upOut, notPrompt>>

\* the template is executed and its text returned
PromptExecute ==
    /\ upPc = "render"
    /\ upOut' = Render(upViews)
    /\ upPc' = "done"
    /\ UNCHANGED <<upHits, upMetaFn, upTmpl, upI, upViews, upErr, notPrompt>>

InitPrompt ==
    /\ PromptInit /\ ChatIdle /\ TruncIdle /\ VecIdle /\ EmbedIdle /\ AdapterIdle
    /\ RouteIdle /\ CleanIdle /\ ProcIdle /\ ChunkIdle /\ DiscIdle /\ TuiIdle
    /\ FilterIdle

NextPrompt ==
    \/ PromptView
    \/ PromptParse
    \/ PromptExecute

SpecPrompt == InitPrompt /\ [][NextPrompt]_vars

\* ---------------------------------------------------------- SpecDiscover
\* discover and ListFiles (cli/chunk.go) over a small file tree:
\*   d/a  d/s/b  d/t/c  e      (d, d/s, d/t directories, the rest files)
\* "gone" names nothing.

\* everything but the call of discoverAndEmbed
notDisc == <<chatVars, truncVars, vecVars, embedVars, adapterVars, routeVars,
             cleanVars, procVars, chunkVars, promptVars, tuiVars, filterVars>>

Dirs == {"d", "d/s", "d/t"}

RegularFiles == {"d/a", "d/s/b", "d/t/c", "e"}

\* the entries of a directory in the lexical order WalkDir reads them
Entries(dir) ==
    CASE dir = "d" -> <<"d/a", "d/s", "d/t">>
      [] dir = "d/s" -> <<"d/s/b">>
      [] dir = "d/t" -> <<"d/t/c">>
      [] OTHER -> <<>>

PathArgs == Dirs \cup {"d/a", "e", "gone"}

\* matches: no pattern matches every path
Matches(res, path) == res = "none" \/ path \in {"d/a"}

\* filepath.WalkDir with the callback of ListFiles: the paths to do are
\* visited in order; the callback returns the error of a directory that
\* cannot be read, which ends the walk
RECURSIVE WalkDir(_, _, _, _)
WalkDir(todo, filenames, res, unreadable) ==
    IF todo = <<>> THEN [filenames |-> filenames, err |-> "nil"]
    ELSE LET path == Head(todo)
         IN IF path \in Dirs
            THEN IF path \in unreadable
                 THEN [filenames |-> filenames, err |-> path]
                 ELSE WalkDir(Entries(path) \o Tail(todo), filenames, res,
                              unreadable)
            ELSE WalkDir(Tail(todo),
                         IF Matches(res, path) THEN Append(filenames, path)
                         ELSE filenames,
                         res, unreadable)

ListFiles(dir, res, unreadable) == WalkDir(<<dir>>, <<>>, res, unreadable)

DiscoverInit ==
    /\ dsFiles \in UNION {[1..n -> PathArgs] : n \in 0..MaxPaths}
    /\ dsMatchREs \in {"none", "onlyA"}
    /\ dsUnreadable \in SUBSET Dirs
    /\ dsCwdOk \in BOOLEAN
    /\ dsI = 0 /\ dsSeen = <<>> /\ dsErrs = <<>> /\ dsPc = "loop"
    /\ dsChunked = <<>>

\* one iteration of the loop of discover
DiscoverPath ==
    /\ dsPc = "loop"
    /\ dsI < Len(dsFiles)
    /\ dsI' = dsI + 1
    /\ LET filename == dsFiles[dsI + 1]
           listed == ListFiles(filename, dsMatchREs, dsUnreadable)
       IN IF ~dsCwdOk
          THEN dsErrs' = Append(dsErrs, [op |-> "abs", path |-> filename])
               /\ dsSeen' = dsSeen
          ELSE IF filename = "gone"
          THEN dsErrs' = Append(dsErrs, [op |-> "stat", path |-> filename])
               /\ dsSeen' = dsSeen
          ELSE IF filename \notin Dirs
          THEN dsErrs' = dsErrs
               /\ dsSeen' = IF Matches(dsMatchREs, filename)
                            THEN Append(dsSeen, filename) ELSE dsSeen
          ELSE IF listed.err # "nil"
          THEN dsErrs' = Append(dsErrs, [op |-> "list", path |-> filename])
               /\ dsSeen' = dsSeen
          ELSE dsErrs' = dsErrs /\ dsSeen' = dsSeen \o listed.filenames
    /\ UNCHANGED <<dsFiles, dsMatchREs, dsUnreadable, dsCwdOk, dsPc, dsChunked, notDisc>>

\* discover returns seen and the joined errors
DiscoverReturn ==
    /\ dsPc = "loop"
    /\ dsI = Len(dsFiles)
    /\ dsPc' = "returned"
    /\ UNCHANGED <<dsFiles, dsMatchREs, dsUnreadable, dsCwdOk, dsI, dsSeen, dsErrs,
                   dsChunked, notDisc>>

\* discoverAndEmbed: an error of discover is returned, otherwise every
\* discovered path is handed to chunkFiles
DiscoverChunk ==
    /\ dsPc = "returned"
    /\ IF dsErrs # <<>>
       THEN dsPc' = "failed" /\ dsChunked' = dsChunked
       ELSE dsPc' = "chunked" /\ dsChunked' = dsSeen
    /\ UNCHANGED <<dsFiles, dsMatchREs, dsUnreadable, dsCwdOk, dsI, dsSeen, dsErrs,
                   notDisc>>

InitDiscover ==
    /\ DiscoverInit /\ ChatIdle /\ TruncIdle /\ VecIdle /\ EmbedIdle /\ AdapterIdle
    /\ RouteIdle /\ CleanIdle /\ ProcIdle /\ ChunkIdle /\ PromptIdle /\ TuiIdle
    /\ FilterIdle

NextDiscover ==
    \/ DiscoverPath
    \/ DiscoverReturn
    \/ DiscoverChunk

SpecDiscover == InitDiscover /\ [][NextDiscover]_vars

\* --------------------------------------------------------------- SpecTui
\* The event loop of the terminal UI (chatui/stream.go: Update, handleKey,
\* handleTextarea, sendPrompt, startRAGCmd, waitChunk) with the goroutines
\* of prompt.SendStream it starts on the one chat session of the selected
\* model. The prompt of request r is the text r.

\* everything but the terminal UI
notTui == <<chatVars, truncVars, vecVars, embedVars, adapterVars, routeVars,
            cleanVars, procVars, chunkVars, promptVars, discVars, filterVars>>

\* the event loop and what it records
loopVars == <<uCancel, uLoading, uReqs, uEofCancels>>

\* the goroutines working on the session
prodVars == <<uHistory, uProd, uBuf, uRolled>>

\* m.cancel(): the context of the request the function belongs to is done
Cancelled(done, c) == [done EXCEPT ![c] = TRUE]

\* the request whose prompt removeLastUserMessage removes, 0 when none
LastUserOf(h) ==
    LET i == LastUserIndex(h, Len(h)) IN IF i = 0 THEN 0 ELSE h[i].content

TuiInit == TuiIdle

\* ctrl+s outside loading, then sendPrompt: the previous request is
\* cancelled, a new context made and the command of startRAGCmd started
TuiCtrlS ==
    /\ ~uLoading
    /\ uReqs < MaxPrompts
    /\ uReqs' = uReqs + 1
    /\ uCtxDone' = IF uCancel # 0 THEN Cancelled(uCtxDone, uCancel) ELSE uCtxDone
    /\ uCancel' = uReqs + 1
    /\ uLoading' = TRUE
    /\ uRag' = [uRag EXCEPT ![uReqs + 1] = "running"]
    /\ UNCHANGED <<prodVars, uWait, uMsgs, uEofCancels, notTui>>

\* esc in the text area
TuiEscKey ==
    /\ uCancel # 0
    /\ uCtxDone' = Cancelled(uCtxDone, uCancel)
    /\ uCancel' = 0
    /\ uLoading' = FALSE
    /\ UNCHANGED <<prodVars, uReqs, uRag, uWait, uMsgs, uEofCancels, notTui>>

\* the command of startRAGCmd: embedding, search and prompt, then SendStream
\* starts the goroutine of the request and ragReady carries its channel
RagRun(r, ok) ==
    /\ uRag[r] = "running"
    /\ uRag' = [uRag EXCEPT ![r] = "done"]
    /\ IF ok
       THEN /\ uProd' = [uProd EXCEPT ![r] = "open"]
            /\ uMsgs' = uMsgs \cup {[type |-> "ragReady", req |-> r, kind |-> "none"]}
       ELSE /\ uProd' = uProd
            /\ uMsgs' = uMsgs \cup {[type |-> "ragErr", req |-> r, kind |-> "none"]}
    /\ UNCHANGED <<uHistory, uBuf, uRolled, loopVars, uCtxDone, uWait, notTui>>

\* Update on ragReady: waitChunk on the channel of the message
UpdateRagReady(r) ==
    /\ [type |-> "ragReady", req |-> r, kind |-> "none"] \in uMsgs
    /\ uMsgs' = uMsgs \ {[type |-> "ragReady", req |-> r, kind |-> "none"]}
    /\ uWait' = [uWait EXCEPT ![r] = TRUE]
    /\ UNCHANGED <<prodVars, loopVars, uCtxDone, uRag, notTui>>

\* Update on ragErr
UpdateRagErr(r) ==
    /\ [type |-> "ragErr", req |-> r, kind |-> "none"] \in uMsgs
    /\ uMsgs' = uMsgs \ {[type |-> "ragErr", req |-> r, kind |-> "none"]}
    /\ uLoading' = FALSE
    /\ UNCHANGED <<prodVars, uCancel, uReqs, uEofCancels, uCtxDone, uRag, uWait, notTui>>

\* the goroutine calls SendStreaming, which appends the prompt
ProdSendStreaming(r) ==
    /\ uProd[r] = "open"
    /\ uHistory' = Append(uHistory, UserMessage(r))
    /\ uProd' = [uProd EXCEPT ![r] = "range"]
    /\ UNCHANGED <<uBuf, uRolled, loopVars, uCtxDone, uRag, uWait, uMsgs, notTui>>

\* the stream yields a delta, which the goroutine sends
ProdDelta(r) ==
    /\ uProd[r] = "range"
    /\ uBuf[r] < MaxTuiDeltas
    /\ uBuf' = [uBuf EXCEPT ![r] = uBuf[r] + 1]
    /\ uProd' = [uProd EXCEPT ![r] = "sendDelta"]
    /\ UNCHANGED <<uHistory, uRolled, loopVars, uCtxDone, uRag, uWait, uMsgs, notTui>>

\* the stream ends without error: the answer is appended when it has content
ProdStreamEnd(r) ==
    /\ uProd[r] = "range"
    /\ uHistory' = IF uBuf[r] > 0 THEN Append(uHistory, AssistantMessage(r))
                   ELSE uHistory
    /\ uProd' = [uProd EXCEPT ![r] = "sendEOF"]
    /\ UNCHANGED <<uBuf, uRolled, loopVars, uCtxDone, uRag, uWait, uMsgs, notTui>>

\* the stream ends with an error: on context.Canceled the last user message
\* is removed
ProdStreamErr(r, cause) ==
    /\ uProd[r] = "range"
    /\ (cause = "canceled") => uCtxDone[r]
    /\ IF cause = "canceled"
       THEN /\ uHistory' = removeLastUserMessage(uHistory)
            /\ uRolled' = uRolled \cup {[by |-> r, removed |-> LastUserOf(uHistory)]}
       ELSE UNCHANGED <<uHistory, uRolled>>
    /\ uProd' = [uProd EXCEPT ![r] = "sendErr"]
    /\ UNCHANGED <<uBuf, loopVars, uCtxDone, uRag, uWait, uMsgs, notTui>>

\* the waiting waitChunk receives what the goroutine sends and hands it to
\* Update as a streamChunk
ChunkHandoff(r) ==
    /\ uProd[r] \in {"sendDelta", "sendEOF", "sendErr"}
    /\ uWait[r]
    /\ uWait' = [uWait EXCEPT ![r] = FALSE]
    /\ uMsgs' = uMsgs \cup
          {[type |-> "streamChunk", req |-> r,
            kind |-> CASE uProd[r] = "sendDelta" -> "content"
                       [] uProd[r] = "sendEOF" -> "EOF"
                       [] OTHER -> "error"]}
    /\ uProd' = [uProd EXCEPT ![r] = IF uProd[r] = "sendDelta" THEN "range"
                                     ELSE "done"]
    /\ UNCHANGED <<uHistory, uBuf, uRolled, loopVars, uCtxDone, uRag, notTui>>

\* Update on a streamChunk
UpdateStreamChunk(r, kind) ==
    /\ [type |-> "streamChunk", req |-> r, kind |-> kind] \in uMsgs
    /\ uMsgs' = uMsgs \ {[type |-> "streamChunk", req |-> r, kind |-> kind]}
    /\ uLoading' = FALSE
    /\ IF kind = "EOF" /\ uCancel # 0
       THEN /\ uCtxDone' = Cancelled(uCtxDone, uCancel)
            /\ uEofCancels' = uEofCancels \cup {[chunkOf |-> r, cancelled |-> uCancel]}
            /\ uCancel' = 0
       ELSE UNCHANGED <<uCtxDone, uEofCancels, uCancel>>
    /\ uWait' = IF kind = "content" THEN [uWait EXCEPT ![r] = TRUE] ELSE uWait
    /\ UNCHANGED <<prodVars, uReqs, uRag, notTui>>

InitTui ==
    /\ TuiInit /\ ChatIdle /\ TruncIdle /\ VecIdle /\ EmbedIdle /\ AdapterIdle
    /\ RouteIdle /\ CleanIdle /\ ProcIdle /\ ChunkIdle /\ PromptIdle /\ DiscIdle
    /\ FilterIdle

NextTui ==
    \/ TuiCtrlS
    \/ TuiEscKey
    \/ \E r \in TuiReqs, ok \in BOOLEAN : RagRun(r, ok)
    \/ \E r \in TuiReqs : UpdateRagReady(r)
    \/ \E r \in TuiReqs : UpdateRagErr(r)
    \/ \E r \in TuiReqs : ProdSendStreaming(r)
    \/ \E r \in TuiReqs : ProdDelta(r)
    \/ \E r \in TuiReqs : ProdStreamEnd(r)
    \/ \E r \in TuiReqs, cause \in {"canceled", "other"} : ProdStreamErr(r, cause)
    \/ \E r \in TuiReqs : ChunkHandoff(r)
    \/ \E r \in TuiReqs, kind \in {"content", "EOF", "error"} :
          UpdateStreamChunk(r, kind)

SpecTui == InitTui /\ [][NextTui]_vars

\* ------------------------------------------------------------ SpecFilter
\* The reasoning filter of drainStream (cli/query.go) and the one of Update
\* on a streamChunk (chatui/stream.go), each fed the deltas of one stream
\* and then EOF.

notFilter == <<chatVars, truncVars, vecVars, embedVars, adapterVars, routeVars,
               cleanVars, procVars, chunkVars, promptVars, discVars, tuiVars>>

\* model.writeResponseChunk
writeResponseChunk(st, d) ==
    IF st.reasoning
    THEN [st EXCEPT !.reasoningText = Append(st.reasoningText, d)]
    ELSE [st EXCEPT !.response = Append(st.response, d)]

\* Update on a streamChunk without error
UpdateTurn(st, d) ==
    LET t == TrimSpace(d)
    IN IF t = reasoningStartTag THEN [st EXCEPT !.reasoning = TRUE]
       ELSE IF t = reasoningEndTag
       THEN [st EXCEPT !.reasoning = FALSE, !.reasoningDone = TRUE,
                       !.reasoningText = <<>>]
       ELSE IF st.reasoningDone /\ Blank(d)
       THEN [st EXCEPT !.reasoningDone = FALSE]
       ELSE writeResponseChunk(st, d)

\* Update on the EOF chunk: the response is written to the history
UpdateEOF(st) ==
    [st EXCEPT !.reasoning = FALSE, !.reasoningDone = FALSE,
               !.answer = st.response, !.response = <<>>]

FilterInit ==
    /\ flDeltas \in UNION {[1..n -> StreamDeltas] : n \in 0..MaxFiltered}
    /\ flCliI = 0 /\ flCli = DrainStart /\ flTuiI = 0 /\ flTui = UpdateStart

\* drainStream receives the next content chunk
FilterDrain ==
    /\ flCliI < Len(flDeltas)
    /\ flCli' = DrainTurn(flCli, flDeltas[flCliI + 1])
    /\ flCliI' = flCliI + 1
    /\ UNCHANGED <<flDeltas, flTuiI, flTui, notFilter>>

\* drainStream receives EOF and returns
FilterDrainEOF ==
    /\ flCliI = Len(flDeltas)
    /\ flCliI' = flCliI + 1
    /\ UNCHANGED <<flDeltas, flCli, flTuiI, flTui, notFilter>>

\* Update handles the next content chunk
FilterUpdate ==
    /\ flTuiI < Len(flDeltas)
    /\ flTui' = UpdateTurn(flTui, flDeltas[flTuiI + 1])
    /\ flTuiI' = flTuiI + 1
    /\ UNCHANGED <<flDeltas, flCliI, flCli, notFilter>>

\* Update handles the EOF chunk
FilterUpdateEOF ==
    /\ flTuiI = Len(flDeltas)
    /\ flTui' = UpdateEOF(flTui)
    /\ flTuiI' = flTuiI + 1
    /\ UNCHANGED <<flDeltas, flCliI, flCli, notFilter>>

InitFilter ==
    /\ FilterInit /\ ChatIdle /\ TruncIdle /\ VecIdle /\ EmbedIdle /\ AdapterIdle
    /\ RouteIdle /\ CleanIdle /\ ProcIdle /\ ChunkIdle /\ PromptIdle /\ DiscIdle
    /\ TuiIdle

NextFilter ==
    \/ FilterDrain
    \/ FilterDrainEOF
    \/ FilterUpdate
    \/ FilterUpdateEOF

SpecFilter == InitFilter /\ [][NextFilter]_vars

\* =================================================================== claims
\* the history a call starts from once its prompt is appended
WithPrompt == Append(pre, UserMessage(req.Prompt))

\* C1: after a SendStreaming whose stream ended with context.Canceled (before
\* the first delta, between deltas or after the last one) the history is the
\* history the call was entered with: no trailing user prompt, no assistant.
C1_CancelledStreamRestoresHistory ==
    outcome = "stream_canceled" => history = pre

C1_Witness ==
    /\ outcome = "stream_canceled"
    /\ yielded # <<>>
    /\ Len(pre) >= 2

\* C2 as stated: whatever makes the stream fail (cancellation, transport
\* error, refusal), the history is the history the call was entered with.
C2_AnyStreamErrorRestoresHistory ==
    outcome \in {"stream_canceled", "stream_error", "stream_refused"}
        => history = pre

\* C2 amended: a failed stream never appends an assistant message; the user
\* prompt is rolled back only for context.Canceled, and after a transport
\* error or a refusal the history is the pre-call history plus user(prompt).
C2_FailedStreamHistory ==
    /\ outcome \in {"stream_error", "stream_refused"} => history = WithPrompt
    /\ outcome = "stream_canceled" => history = pre

C2_Witness ==
    /\ outcome \in {"stream_error", "stream_refused"}
    /\ yielded # <<>>
    /\ pre # <<>>

\* C3 as stated: a cleanly ended stream leaves pre ++ user(prompt) ++ one
\* assistant message holding the concatenation of the yielded deltas.
C3_CleanStreamAppendsAssistant ==
    outcome = "stream_clean"
        => history = Append(WithPrompt, AssistantMessage(Concat(yielded)))

\* C3 amended: a cleanly ended stream that yielded at least one delta leaves
\* pre ++ user(prompt) ++ assistant(concatenation of the deltas in arrival
\* order); one that yielded no delta leaves pre ++ user(prompt) only.
C3_CleanStreamHistory ==
    outcome = "stream_clean"
        => history = IF yielded # <<>>
                     THEN Append(WithPrompt, AssistantMessage(Concat(yielded)))
                     ELSE WithPrompt

C3_Witness ==
    /\ outcome = "stream_clean"
    /\ Len(yielded) = 2
    /\ yielded[1] # yielded[2]

\* C4: after every successful Send and every cleanly ended SendStreaming,
\* contextUsed equals the token counter applied to the current history.
C4_TokensUsedMatchesHistory ==
    outcome \in {"send_ok", "stream_clean"}
        => contextUsed = Count(tokenCounter, history)

\* C5: in every reachable state history[0] is a system message exactly when
\* the system prompt is non-empty; no rollback removes it.
C5_SystemMessageIffPrompt ==
    (history # <<>> /\ history[1].role = "system") <=> (systemPrompt # "")

C5_Witness ==
    /\ systemPrompt # ""
    /\ outcome \in {"stream_canceled", "send_canceled"}
    /\ calls = 2

\* C9: the outbound message list of Send / SendStreaming is the history
\* truncated to the request's ContextLength when that is non-zero and to the
\* session's defaultContext otherwise.
C9_RequestContextLengthUsed ==
    outcome \notin {"none", "send_nomodel", "stream_nomodel"}
        => messages = TruncateHistory(tokenCounter, WithPrompt,
                          IF req.ContextLength # 0 THEN req.ContextLength
                          ELSE defaultContext)

\* ------------------------------------------------- claims on TruncateHistory
\* C6: whenever limit = 0 or limit >= Count(history), TruncateHistory returns
\* its input unchanged, for either token counter.
C6_FitsUnchanged ==
    (tpc \in {"once", "twice"} /\ (tLimit = 0 \/ tLimit >= Count(tCounter, tMsgs)))
        => tOut = tMsgs

\* where one drop step of the policy leads from j dropped messages
StepFrom(tail, j) ==
    IF j + 2 <= Len(tail) /\ tail[j + 1].role = "user" /\ tail[j + 2].role = "assistant"
    THEN j + 2
    ELSE j + 1

\* the numbers of dropped tail messages the policy can pass through
DropPoints(tail) ==
    LET reach[k \in 0..Len(tail)] ==
            k = 0 \/ \E j \in 0..(k - 1) : reach[j] /\ StepFrom(tail, j) = k
    IN  {k \in 0..Len(tail) : reach[k]}

\* the policy's result stated directly: the first drop point whose suffix fits
ExpectedTruncation(tc, msgs, limit) ==
    LET headEnd == HeadEnd(msgs)
        head == SubSeq(msgs, 1, headEnd)
        tail == SubSeq(msgs, headEnd + 1, Len(msgs))
        Fits(k) == Count(tc, head) + SumCounts(tc, SubSeq(tail, k + 1, Len(tail))) <= limit
        cut == CHOOSE k \in DropPoints(tail) :
                   /\ Fits(k) \/ k = Len(tail)
                   /\ \A j \in DropPoints(tail) : j < k => ~Fits(j)
    IN  head \o SubSeq(tail, cut + 1, Len(tail))

\* C7: when Count(history) is not below a non-zero limit, the result is the
\* whole leading run of system messages followed by the suffix of the rest
\* left by dropping user-then-assistant pairs (both) or else single messages
\* from the front until head tokens + tail tokens <= limit or nothing is left.
C7_DropPolicy ==
    (tpc \in {"once", "twice"} /\ tLimit # 0 /\ Count(tCounter, tMsgs) >= tLimit)
        => tOut = ExpectedTruncation(tCounter, tMsgs, tLimit)

C7_Witness ==
    /\ tpc = "once"
    /\ tLimit # 0 /\ Count(tCounter, tMsgs) >= tLimit
    /\ HeadEnd(tMsgs) = 1
    /\ Len(tMsgs) = 4
    /\ tMsgs[2].role = "user" /\ tMsgs[3].role = "assistant"
    /\ Len(tOut) = 2

SubadditiveCounters == {"approx", "countMsgs"}

\* every system message of the history is in its leading run
SystemsLead(msgs) ==
    \A i \in 1..Len(msgs) : msgs[i].role = "system" => i <= HeadEnd(msgs)

NewIds == DOMAIN tblChunks \ DOMAIN vPre.chunks

\* the tables hold the rows they held before the last Insert, unchanged
OldRowsKept ==
    /\ \A r \in DOMAIN vPre.chunks : r \in DOMAIN tblChunks /\ tblChunks[r] = vPre.chunks[r]
    /\ \A r \in DOMAIN vPre.vec : r \in DOMAIN tblVec /\ tblVec[r] = vPre.vec[r]

\* every chunk of the batch has its own searchable row, in batch order
BatchVisible ==
    /\ Cardinality(NewIds) = Len(batch)
    /\ NewIds \subseteq Searchable(tblChunks, tblVec)
    /\ \E f \in [1..Len(batch) -> NewIds] :
          /\ \A i, j \in 1..Len(batch) : i < j => f[i] < f[j]
          /\ \A i \in 1..Len(batch) :
                /\ tblChunks[f[i]].content = batch[i].Content
                /\ tblChunks[f[i]].meta = batch[i].Meta
                /\ tblVec[f[i]] = batch[i].Vec

HitIds == {hits[i].ID : i \in 1..Len(hits)}

\* C10: Insert is all-or-nothing.  After a successful Insert every row of the
\* batch is searchable (and a later SearchKNN whose k covers the index returns
\* it); after a failed Insert (a vector of the wrong length, or any failing
\* step) no content or vector row of the batch is left, the tables are those
\* before the call and a later SearchKNN returns none of the batch.
C10_InsertAllOrNothing ==
    /\ (vpc = "idle" /\ vResult = "ok") =>
          /\ BatchVisible
          /\ OldRowsKept
          /\ (searched.status = "ok"
                 /\ searched.k >= Cardinality(Searchable(tblChunks, tblVec)))
                => NewIds \subseteq HitIds
    /\ (vpc = "idle" /\ vResult \in {"err_chunk", "err_dim", "err_vec", "err_commit"}) =>
          /\ tblChunks = vPre.chunks
          /\ tblVec = vPre.vec
          /\ ~inTx
          /\ searched.status = "ok"
                => HitIds \subseteq Searchable(vPre.chunks, vPre.vec)

C10_Witness ==
    /\ vpc = "idle" /\ vResult = "err_dim"
    /\ Len(batch) = 2
    /\ Len(batch[1].Vec) = dim
    /\ Len(batch[2].Vec) # dim
    /\ DOMAIN vPre.chunks # {}
    /\ searched.status = "ok"

\* every chunk handed to Insert so far is in the index: no Insert failed
AllInserted == Len(assigned) = Cardinality(DOMAIN tblChunks)

\* C11: after inserting N chunks of dimension dim into a fresh index,
\* SearchKNN(q, k) with k > 0 returns exactly min(k, N) hits in order of
\* non-decreasing distance, hits of equal distance in ascending rowid order.
C11_KNNOrderedTiesByRowid ==
    (vpc = "idle" /\ searched.status = "ok" /\ searched.arg > 0 /\ AllInserted) =>
        LET N == Cardinality(DOMAIN tblChunks)
        IN  /\ Len(hits) = IF searched.arg < N THEN searched.arg ELSE N
            /\ \A i \in 1..(Len(hits) - 1) :
                  \/ hits[i].Distance < hits[i + 1].Distance
                  \/ /\ hits[i].Distance = hits[i + 1].Distance
                     /\ hits[i].ID < hits[i + 1].ID

\* C12: when the configured top_k is 0, Run retrieves nothing: the hits
\* handed to BuildUserPrompt are empty and the CONTEXT section of the prompt
\* reads "(no relevant chunks)".
C12_TopKZeroDisablesRetrieval ==
    (run.status = "ok" /\ run.conf = 0) =>
        /\ hits = <<>>
        /\ run.context = <<NoRelevantChunks>>

\* C13: over any sequence of successful and rolled back Inserts the rowids
\* the index assigns are strictly increasing in assignment order, hence unique
\* and never assigned twice.
C13_RowidsNeverReused ==
    \A i, j \in 1..Len(assigned) : i < j => assigned[i] < assigned[j]

\* ------------------------------------------ claims on the embedding pipeline
\* the rows of a source in the index, and the ordinals their meta carries
SourceRows(s) == {r \in DOMAIN tblChunks : tblChunks[r].meta.Source = s}

Ordinals(s) == {tblChunks[r].meta.Index : r \in SourceRows(s)}

\* the numbers of chunks of a source that whole batches can have covered
BatchEnds(n) == {k \in 0..n : k = n \/ k % embedBatchSize = 0}

\* C14: the rows of one source are inserted batch by batch in order: in rowid
\* (insertion) order their ordinals ascend strictly, each row holds the chunk
\* at the position its ordinal names, and the rows present are those of the
\* first batches of at most embedBatchSize consecutive chunks, none skipped.
C14_SourceRowsInOrdinalOrder ==
    \A s \in DOMAIN chunkedFiles :
        /\ \A r1, r2 \in SourceRows(s) :
              r1 < r2 => tblChunks[r1].meta.Index < tblChunks[r2].meta.Index
        /\ \A r \in SourceRows(s) :
              tblChunks[r].content = ChunkAt(s, tblChunks[r].meta.Index)
        /\ Ordinals(s) = 0..(Cardinality(SourceRows(s)) - 1)
        /\ Cardinality(SourceRows(s)) \in BatchEnds(chunkedFiles[s])
        /\ wpc[s] \in {"embed", "tx"} => Cardinality(SourceRows(s)) = wi[s]

C14_Witness ==
    \E s \in DOMAIN chunkedFiles :
        /\ Cardinality(SourceRows(s)) = embedBatchSize + 1
        /\ \E r1, r2 \in SourceRows(s), x \in DOMAIN tblChunks \ SourceRows(s) :
              r1 < x /\ x < r2

\* the workers started and not yet returned
Running == {w \in DOMAIN wpc : wpc[w] \in {"embed", "tx"}}

\* C15: at every moment at most embedConcurrency workers are running; every
\* unit of the semaphore held belongs to a running worker or to the loop that
\* is about to start one, so a worker starts only with a unit acquired and
\* gives it back exactly once when it returns.
C15_AtMostWRunning ==
    /\ Cardinality(Running) <= embedConcurrency
    /\ semCur = Cardinality(Running) + (IF mainPc = "go" THEN 1 ELSE 0)
    /\ semCur <= embedConcurrency

C15_Witness ==
    /\ mainPc = "go"
    /\ semCur = embedConcurrency
    /\ \E w \in DOMAIN wpc : wpc[w] \in {"released", "done"}

\* C16: the first worker error cancels the context, no source is started
\* once the context is cancelled, and embedAll returns that first error only
\* when every started worker is done.
C16_FirstErrorStopsQueue ==
    /\ (\E w \in DOMAIN wpc : wpc[w] = "done" /\ werr[w] # NoErr)
          => (ctxDone /\ gErr # NoErr)
    /\ ~lateStart
    /\ mainPc = "returned"
          => (ret = gErr /\ \A w \in DOMAIN wpc : wpc[w] \in {"queued", "done"})

\* C17: when a batch [i:j] of a source fails in its embedding request (error
\* or wrong number of vectors), the error embedAll returns names that source
\* and the range [i:j].
C17_ErrorNamesSourceAndRange ==
    (mainPc = "returned" /\ ret.cause = "failed") =>
        \E w \in DOMAIN werr :
            /\ werr[w] = ret
            /\ ret.source = w
            /\ ret.lo = wi[w]
            /\ ret.hi = BatchEnd(wi[w], chunkedFiles[w])

\* C18: once the worker of a source has stopped at a batch, because the
\* batch failed (embedding request or Insert) or its request was cancelled,
\* the index holds every row of the earlier batches of that source and no row
\* of that batch or of a later one.
C18_StoppedWorkerRows ==
    \A w \in DOMAIN wpc :
        (wpc[w] \in {"released", "done"} /\ werr[w] # NoErr) =>
            /\ Ordinals(w) = 0..(wi[w] - 1)
            /\ Cardinality(SourceRows(w)) = wi[w]
            /\ werr[w].lo = wi[w]

C18_Witness ==
    /\ \E w \in DOMAIN wpc : werr[w].cause = "insert" /\ wi[w] > 0
    /\ \E w \in DOMAIN wpc : werr[w].cause = "canceled" /\ wi[w] > 0

\* ------------------------------------------- claims on the stream adapter
IsTerminal(c) == c.Err # "none"

\* C19: the channel carries the deltas the iterator yielded, in their order,
\* as content chunks, then exactly one terminal chunk: io.EOF if the stream
\* ended cleanly, otherwise the error; the channel is closed only after the
\* terminal chunk, no chunk follows a terminal chunk, and when opening the
\* stream failed the error chunk is the only chunk.
C19_ChannelSequence ==
    /\ Len(carried) <= Len(sYielded) + 1
    /\ \A i \in 1..Len(carried) :
          IF i <= Len(sYielded)
            THEN carried[i] = ContentChunk(sYielded[i])
            ELSE /\ IsTerminal(carried[i])
                 /\ sEnd # "none"
                 /\ (carried[i].Err = "EOF") <=> (sEnd = "clean")
                 /\ carried[i].Content = ""
    /\ chClosed => (carried # <<>> /\ IsTerminal(carried[Len(carried)]))
    /\ (sEnd = "open") => (carried \in {<<>>, <<ErrChunk("open")>>})
    /\ (carried # <<>> /\ IsTerminal(carried[Len(carried)])) =>
          (sending = NoChunk /\ ppc \in {"close", "done"})

C19_Witness ==
    /\ chClosed
    /\ Len(carried) = 3
    /\ carried[1].Content # carried[2].Content
    /\ carried[3] = ErrChunk("EOF")

\* C20: on every exit path the producer goroutine terminates and the channel
\* is closed, also when the drain loop stopped receiving on ctx.Done.
C20_ChannelEventuallyClosed == <>(chClosed /\ ppc = "done")

\* ------------------------------------------------ claims on the drain loop
\* the contents drainStream received so far, in arrival order
Received ==
    LET n == Cardinality({i \in 1..Len(carried) : carried[i].Err = "none"})
    IN  [i \in 1..n |-> carried[i].Content]

AllWhitespace(d) == \A i \in 1..Len(d) : d[i] = " "

\* the delta is the tag, blanks around it aside
IsSentinel(d, tag) ==
    \E i \in 1..Len(d) : d[i] = tag[1] /\ \A j \in 1..Len(d) \ {i} : d[j] = " "

\* the delta lies after a start tag with no end tag in between
InReasoning(seq, i) ==
    \E j \in 1..(i - 1) :
        /\ IsSentinel(seq[j], reasoningStartTag)
        /\ \A k \in (j + 1)..(i - 1) : ~IsSentinel(seq[k], reasoningEndTag)

Written(seq, i) ==
    /\ ~IsSentinel(seq[i], reasoningStartTag)
    /\ ~IsSentinel(seq[i], reasoningEndTag)
    /\ ~InReasoning(seq, i)
    /\ ~(i > 1 /\ IsSentinel(seq[i - 1], reasoningEndTag) /\ AllWhitespace(seq[i]))

RECURSIVE Kept(_, _)
Kept(seq, i) ==
    IF i > Len(seq) THEN <<>>
    ELSE (IF Written(seq, i) THEN <<seq[i]>> ELSE <<>>) \o Kept(seq, i + 1)

\* C21: the output of the drain loop is, in arrival order and verbatim, the
\* received deltas that are no tag, do not lie between a start tag and the
\* next end tag, and are not an all-blank delta right after an end tag.
C21_ReasoningFiltered == printed = Kept(Received, 1)

C21_Witness ==
    /\ Received = << <<"<think>", " ">>, <<"a", " ">>, reasoningEndTag, <<" ">>,
                     <<"a", " ">> >>
    /\ printed = << <<"a", " ">> >>

\* ------------------------------------------- claims on the provider registry
\* the providers whose available models contain the model
Claimers(m) == {i \in DOMAIN providers : m \in providers[i]}

\* the first of them in registry order, 0 if there is none
Owner(m) ==
    IF Claimers(m) = {} THEN 0
    ELSE CHOOSE i \in Claimers(m) : \A j \in Claimers(m) : i <= j

\* C22: on both paths the query text is embedded through the provider that
\* owns the embedding model, whichever provider owns the selected chat model.
C22_EmbedViaEmbeddingOwner ==
    (embedVia # 0) => (embedVia = Owner(embeddingModel))

\* C23: on both paths the streaming chat is opened on the session of the
\* provider that owns the selected chat model, whichever provider owns the
\* embedding model.
C23_ChatViaChatOwner ==
    (chatVia # 0) => (chatVia = Owner(selectedModel))

\* C24: ProviderFor returns the first provider in registry order whose
\* available models contain the model, and fails with the no-provider error
\* exactly when no provider's available models contain it.
C24_ProviderForFirstOwner ==
    (lookedUp.err # "none") =>
        /\ (lookedUp.err = "no provider found") <=> (Claimers(lookedUp.model) = {})
        /\ lookedUp.err \in {"nil", "no provider found"}
        /\ lookedUp.idx = Owner(lookedUp.model)

C24_Witness ==
    /\ lookedUp.idx = 2
    /\ Cardinality(Claimers(lookedUp.model)) = 2

\* -------------------------------------------------- claims on executeCleanup
\* the places of the list in reverse registration order
ReversePlaces(n) == [i \in 1..n |-> n + 1 - i]

\* the errors of the failing callbacks, in reverse registration order
RECURSIVE FailuresFrom(_, _)
FailuresFrom(fs, i) ==
    IF i < 1 THEN <<>>
    ELSE (IF fs[i].fails THEN << <<"cleanup", fs[i].id>> >> ELSE <<>>)
         \o FailuresFrom(fs, i - 1)

\* C27: executeCleanup calls every registered callback exactly once, in
\* reverse registration order, also after a callback failed, and returns the
\* errors of all callbacks that failed; a second invocation on the same list
\* calls none.
C27_CleanupReverseOnce ==
    LET n == Len(cleanupFuncs)
    IN  /\ \A i \in 1..Len(kRan) : kRan[i] = n + 1 - i
        /\ (kInv >= 1) => (kRan = ReversePlaces(n))
        /\ (kInv = 1 /\ kpc = "returned") =>
              kRet = FailuresFrom(cleanupFuncs, n)
        /\ (kInv = 2 /\ kpc = "returned") => kRet = <<>>

C27_Witness ==
    /\ kInv = 2
    /\ kRan = <<3, 2, 1>>
    /\ cleanupFuncs[3].fails /\ ~cleanupFuncs[2].fails /\ cleanupFuncs[1].fails

\* ------------------------------------------ claims on startup and shutdown
\* the place of a step in the run so far, 0 if it did not run
RanAt(name) ==
    IF \E i \in 1..Len(ran) : ran[i].step = name
      THEN CHOOSE i \in 1..Len(ran) : ran[i].step = name
      ELSE 0

StepOk(name) == RanAt(name) # 0 /\ ran[RanAt(name)].err = "nil"

\* C25: the startup steps run in the listed order and a failed step is the
\* last one to run, so the command runs after no failed step; the index
\* exists only after a successful dimension probe and has the probed
\* dimension.
C25_StartupInOrder ==
    /\ Len(ran) <= Len(StepOrder)
    /\ \A i \in 1..Len(ran) : ran[i].step = StepOrder[i]
    /\ \A i \in 1..(Len(ran) - 1) : ran[i].err = "nil"
    /\ (bpc \in {"command", "post", "cleanup"}) =>
          (\A i \in 1..Len(ran) : ran[i].err = "nil")
    /\ (vectordb.state # "none") =>
          /\ StepOk("initVecDim")
          /\ RanAt("initVecDim") < RanAt("initVecdb")
          /\ llmDim \in ProbeDims \ {0}
          /\ vectordb.dim = llmDim

C25_Witness ==
    /\ bpc = "command"
    /\ vectordb = [state |-> "open", dim |-> 2]
    /\ Len(ran) = Len(StepOrder)

\* C26: when the selected chat model or the embedding model is in no
\* provider's available models, the verification step fails and neither the
\* dimension probe nor the index creation runs.
C26_UnclaimedModelStopsStartup ==
    (RanAt("validateSelectedModels") # 0
       /\ (Claimers(selectedModel) = {} \/ Claimers(embeddingModel) = {})) =>
        /\ ran[RanAt("validateSelectedModels")].err # "nil"
        /\ RanAt("initVecDim") = 0
        /\ RanAt("initVecdb") = 0

\* C28: when the startup or the command failed with a primary error, every
\* registered cleanup callback has been called by the time the process has
\* exited, and the cleanup errors are reported after the primary error.
C28_CleanupAfterPrimaryError ==
    (bpc = "exited" /\ primary # "nil") =>
        /\ \A i \in DOMAIN cleanupFuncs : cleanupFuncs[i].isNil
        /\ reported[1] = primary
        /\ (FailuresFrom(cleanupFuncs, Len(cleanupFuncs)) # <<>>) =>
              (Len(reported) = 2
                 /\ reported[2] = FailuresFrom(cleanupFuncs, Len(cleanupFuncs)))

\* C29: after a successful startup, once the process has finished its
\* cleanup the index created in startup is closed and so are the provider
\* clients.
C29_IndexAndClientsClosed ==
    (StepOk("initVecdb") /\ kInv >= 1 /\ kpc = "returned") =>
        /\ vectordb.state = "closed"
        /\ clients = "closed"

\* C30: when a cleanup callback has released the log file, a request that is
\* still in flight has its context cancelled and its stream closed.
C30_CancelBeforeRelease ==
    (logFile = "closed" /\ inflight = "streaming") =>
        (reqCtxDone /\ ~streamOpen)

\* ------------------------------------------------------ claims on ChunkText
\* ChunkText returned chunks of a UTF-8 text
Chunked == ckPc = "done" /\ ckErr = "nil" /\ ValidUTF8(ckText)

\* the runes of a chunk without its first k
StripRunes(chunk, k) ==
    LET r == ToRunes(chunk) IN SubSeq(r, k + 1, Len(r))

\* the first chunk followed by every later chunk without its overlap
RECURSIVE Rejoined(_, _, _)
Rejoined(out, k, overlap) ==
    IF k > Len(out) THEN <<>>
    ELSE RunesToString(StripRunes(out[k], IF k = 1 THEN 0 ELSE overlap))
             \o Rejoined(out, k + 1, overlap)

\* C31: the chunks of a UTF-8 text are its slices at the codepoint offsets
\* 0, step, 2*step, ..., each of size codepoints except possibly the last;
\* the first chunk followed by the later chunks without their first overlap
\* codepoints is the text; the empty text has no chunk.
C31_ChunksReconstructText ==
    Chunked =>
        LET n == Len(ToRunes(ckText))
            step == ckSize - ckOverlap
        IN /\ (ckText = <<>>) => (ckOut = <<>>)
           /\ \A k \in 1..Len(ckOut) :
                 /\ (k - 1) * step < n
                 /\ ToRunes(ckOut[k]) =
                        SubSeq(ToRunes(ckText), (k - 1) * step + 1,
                               Min((k - 1) * step + ckSize, n))
                 /\ (k < Len(ckOut)) => (Len(ToRunes(ckOut[k])) = ckSize)
           /\ Rejoined(ckOut, 1, ckOverlap) = ckText

\* chunks with an overlap, the last one short, of a text with a two-byte
\* codepoint
C31_Witness ==
    /\ Chunked /\ ckOverlap > 0 /\ Len(ckOut) >= 2
    /\ Len(ToRunes(ckOut[Len(ckOut)])) < ckSize
    /\ Len(ckText) > Len(ToRunes(ckText))

CeilDiv(a, b) == (a + b - 1) \div b

\* C32: a non-empty text of n codepoints yields
\* ceil(max(0, n - overlap) / (size - overlap)) chunks, the empty text none.
C32_ChunkCount ==
    Chunked =>
        LET n == Len(ToRunes(ckText))
        IN Len(ckOut) = IF n = 0 THEN 0
                        ELSE CeilDiv(IF n > ckOverlap THEN n - ckOverlap ELSE 0,
                                     ckSize - ckOverlap)

\* C32 as the code has it: a non-empty text of at most overlap codepoints is
\* one chunk, a longer one ceil((n - overlap) / (size - overlap)) chunks.
C32_ChunkCountAtLeastOne ==
    Chunked =>
        LET n == Len(ToRunes(ckText))
        IN Len(ckOut) = IF n = 0 THEN 0
                        ELSE IF n <= ckOverlap THEN 1
                        ELSE CeilDiv(n - ckOverlap, ckSize - ckOverlap)

\* a text no longer than the overlap was chunked
C32_Witness ==
    /\ Chunked /\ ckText # <<>> /\ Len(ToRunes(ckText)) <= ckOverlap
    /\ Len(ckOut) = 1

\* ------------------------------------------------ claims on BuildUserPrompt
\* the CHUNK lines of the rendered prompt, in order
ChunkLines == SelectSeq(upOut, LAMBDA l : l.kind = "chunk")

\* C33: the prompt has one CHUNK block per hit in hit order; a hit whose
\* meta decodes is rendered with the ordinal stored in the meta and, when a
\* source is stored, with that source; without a decoder the block shows
\* "unknown" and the position of the hit; without hits the CONTEXT section
\* reads "(no relevant chunks)".
C33_BlocksShowStoredMeta ==
    (upPc = "done" /\ upErr = "nil") =>
        /\ Len(ChunkLines) = Len(upHits)
        /\ (upHits = <<>>) => (upOut[Len(upOut)] = Lit("(no relevant chunks)"))
        /\ \A i \in 1..Len(upHits) :
              /\ (upMetaFn = "nil") =>
                    (ChunkLines[i].source = "unknown" /\ ChunkLines[i].id = i - 1)
              /\ \A m \in Metas :
                    (upMetaFn # "nil" /\ upHits[i].Meta = EncodeMeta(m)) =>
                        /\ ChunkLines[i].id = m.Index
                        /\ (m.Source # "") => (ChunkLines[i].source = m.Source)

\* -------------------------------------------------------- claims on discover
\* path is root or lies below it
Below(root, path) ==
    \/ path = root
    \/ \E k \in 1..Len(Entries(root)) : 
          LET e == Entries(root)[k]
          IN e = path \/ \E j \in 1..Len(Entries(e)) : Entries(e)[j] = path

\* the regular files below root that can be reached through readable
\* directories and match the patterns
ReadableFiles(root) ==
    {f \in RegularFiles :
        /\ Below(root, f)
        /\ Matches(dsMatchREs, f)
        /\ \A dir \in Dirs :
              (Below(root, dir) /\ Below(dir, f)) => dir \notin dsUnreadable}

\* the paths discover returned
SeenSet == {dsSeen[i] : i \in 1..Len(dsSeen)}

\* C34: discover returns every regular file it can reach from its paths:
\* an error on one path or an unreadable directory in one subtree keeps no
\* file of a readable sibling path or sibling subtree out of the result,
\* and each failed path contributes one joined error.
C34_ErrorsDoNotHideSiblings ==
    (dsPc = "returned" /\ dsCwdOk) =>
        \A i \in 1..Len(dsFiles) : ReadableFiles(dsFiles[i]) \subseteq SeenSet

\* C35: no regular file appears twice in the result of discover, so none is
\* handed to chunkFiles twice.
C35_DiscoveredOnce ==
    /\ \A i, j \in 1..Len(dsSeen) : (dsSeen[i] = dsSeen[j]) => (i = j)
    /\ \A i, j \in 1..Len(dsChunked) : (dsChunked[i] = dsChunked[j]) => (i = j)

\* ------------------------------------------------- claims on the terminal UI
\* the requests whose goroutine works on the session: SendStreaming was
\* called and the stream has not ended
Streaming == {r \in TuiReqs : uProd[r] \in {"range", "sendDelta"}}

\* C36: at most one goroutine of SendStream works on the session at a time,
\* and a rollback removes the prompt of the request that rolls back, never
\* the prompt of a newer request.
C36_OneProducerPerSession ==
    /\ Cardinality(Streaming) <= 1
    /\ \A p \in uRolled : p.removed = p.by

\* C39: the cancel function invoked when an EOF chunk is handled belongs to
\* the request whose stream ended.
C39_EofCancelsOwnRequest ==
    \A c \in uEofCancels : c.cancelled = c.chunkOf

\* --------------------------------------------- claims on the two filters
\* the text of a sequence of deltas
RECURSIVE Joined(_)
Joined(ds) == IF ds = <<>> THEN <<>> ELSE Head(ds) \o Joined(Tail(ds))

\* C40: for every sequence of content deltas followed by EOF the answer the
\* terminal UI accumulated is the text drainStream printed.
C40_SameReasoningFilter ==
    (flCliI = Len(flDeltas) + 1 /\ flTuiI = Len(flDeltas) + 1) =>
        Joined(flTui.answer) = Joined(flCli.printed)

\* ------------------------------------- claims on the inserts of embedAll
\* the workers inside the transaction of their Insert
InTransaction == {w \in Sources : wpc[w] = "tx"}

\* the workers whose Insert executed its BEGIN inside the open transaction
\* of another worker
BeganInside ==
    {w \in Sources : werr[w].kind = "vectordb insert" /\ werr[w].cause = "begin"}

\* C37: the insert transactions of the workers of embedAll do not overlap:
\* at most one worker is inside a transaction, and no worker executes a
\* statement of its Insert while the transaction of another worker is open.
C37_InsertsDoNotOverlap ==
    /\ Cardinality(InTransaction) <= 1
    /\ BeganInside = {}

\* ------------------------------------------- claims on the outbound list
\* the request of the current or last call was built and handed to the API
RequestBuilt ==
    pc = "streaming" \/ outcome \notin {"none", "send_nomodel", "stream_nomodel"}

\* C38: the message list Send and SendStreaming hand to the chat API ends
\* with the user prompt of the request, whatever the context limit.
C38_OutboundEndsWithPrompt ==
    RequestBuilt =>
        /\ messages # <<>>
        /\ messages[Len(messages)] = UserMessage(req.Prompt)

====
